---- MODULE Spec2Model ----
(***************************************************************************)
(* Verification model of the hao-backprop-test Express.js application:     *)
(*   - server.js: HTTP listener, connection tracking, graceful shutdown    *)
(*   - middleware/errorHandler: error classification, safe messages,       *)
(*     centralized error handler                                           *)
(*   - middleware/logger: correlation identifier middleware                *)
(*   - routes/health: health, ping and readiness handlers                  *)
(*   - app.js (createApp): the middleware pipeline                         *)
(*   - config/index: environment parsing and the exported settings         *)
(*   - routes/api, routes/index: user, error and ping handlers, routing    *)
(*   - access logging: the skip functions of the morgan instances          *)
(* Every part has its own specification over the shared variables; a part  *)
(* that a specification does not exercise stays in its initial value.      *)
(***************************************************************************)
EXTENDS Integers, Sequences, FiniteSets, TLC

(***************************************************************************)
(* Bounds of the model                                                     *)
(***************************************************************************)
MaxConns == 3
MaxSignals == 2

VARIABLES
    phase,          \* server.js: "starting" | "listening" | "closing" | "exited"
    sock,           \* per socket: "none" | "open" | "ended" | "closed"
    connections,    \* server.js: the Set of tracked connections
    closeCbs,       \* pending server.close callbacks; TRUE = called with an error
    timerArmed,     \* server.js: shutdownTimeout pending
    intervalArmed,  \* server.js: checkConnections interval pending
    exitCode,       \* -1 while the process runs, else the code of process.exit
    signals,        \* number of shutdown triggers received so far
    pc,             \* where the request under consideration is
    env,            \* the process environment the handlers read
    req,            \* the request object
    res,            \* the response object
    err,            \* the failure handed to the error handling code
    cls,            \* result of classifyError
    safeMsg,        \* result of generateSafeErrorMessage
    logs,           \* log lines written for the request
    errorBody,      \* result of createErrorResponse
    config,         \* the object that require('./config') returns
    thrown          \* an exception left the handler that ran last

serverVars == <<phase, sock, connections, closeCbs, timerArmed, intervalArmed,
                exitCode, signals>>

requestVars == <<pc, env, req, res, err, cls, safeMsg, logs, errorBody, thrown>>

vars == <<phase, sock, connections, closeCbs, timerArmed, intervalArmed,
          exitCode, signals, pc, env, req, res, err, cls, safeMsg, logs,
          errorBody, config, thrown>>


(***************************************************************************)
(* Text is a sequence of one-character strings, so that length, case       *)
(* folding and substring search are computed as the code computes them.    *)
(***************************************************************************)
UpperCase == <<"A", "B", "C", "D", "E", "F", "G", "H", "I", "J", "K", "L", "M",
               "N", "O", "P", "Q", "R", "S", "T", "U", "V", "W", "X", "Y", "Z">>
LowerCase == <<"a", "b", "c", "d", "e", "f", "g", "h", "i", "j", "k", "l", "m",
               "n", "o", "p", "q", "r", "s", "t", "u", "v", "w", "x", "y", "z">>

\* String.prototype.toLowerCase, one character
LowerChar(c) ==
    IF \E i \in DOMAIN UpperCase : UpperCase[i] = c
    THEN LowerCase[CHOOSE i \in DOMAIN UpperCase : UpperCase[i] = c]
    ELSE c

\* String.prototype.toLowerCase
ToLowerCase(s) == [i \in DOMAIN s |-> LowerChar(s[i])]

\* sub occurs in s starting at position i
OccursAt(s, sub, i) ==
    /\ i >= 1
    /\ i + Len(sub) - 1 <= Len(s)
    /\ \A k \in 1..Len(sub) : s[i + k - 1] = sub[k]

\* String.prototype.includes
Includes(s, sub) == \E i \in 1..(Len(s) + 1) : OccursAt(s, sub, i)

\* Variant of the pattern test that does not ignore the letter case
TestWord_CaseSensitive(s, word) == Includes(s, word)

\* RegExp /word/i .test(s)
TestWord(s, word) == Includes(ToLowerCase(s), word)

\* RegExp /first.*second/i .test(s): the dot matches no line terminator
TestWordThenWord(s, first, second) ==
    LET l == ToLowerCase(s)
    IN \E i \in 1..Len(l) : \E j \in 1..Len(l) :
          /\ OccursAt(l, first, i)
          /\ j >= i + Len(first)
          /\ OccursAt(l, second, j)
          /\ \A k \in (i + Len(first))..(j - 1) : l[k] # "\n"

(***************************************************************************)
(* middleware/errorHandler: keywords, sensitive patterns, safe messages    *)
(***************************************************************************)
KW_validation == <<"v", "a", "l", "i", "d", "a", "t", "i", "o", "n">>
KW_invalid == <<"i", "n", "v", "a", "l", "i", "d">>
KW_unauthorized ==
    <<"u", "n", "a", "u", "t", "h", "o", "r", "i", "z", "e", "d">>
KW_authentication ==
    <<"a", "u", "t", "h", "e", "n", "t", "i", "c", "a", "t", "i", "o", "n">>
KW_forbidden == <<"f", "o", "r", "b", "i", "d", "d", "e", "n">>
KW_permission == <<"p", "e", "r", "m", "i", "s", "s", "i", "o", "n">>
KW_not_found == <<"n", "o", "t", " ", "f", "o", "u", "n", "d">>

PAT_password == <<"p", "a", "s", "s", "w", "o", "r", "d">>
PAT_token == <<"t", "o", "k", "e", "n">>
PAT_secret == <<"s", "e", "c", "r", "e", "t">>
PAT_key == <<"k", "e", "y">>
PAT_database == <<"d", "a", "t", "a", "b", "a", "s", "e">>
PAT_connection == <<"c", "o", "n", "n", "e", "c", "t", "i", "o", "n">>
PAT_internal == <<"i", "n", "t", "e", "r", "n", "a", "l">>
PAT_stack == <<"s", "t", "a", "c", "k">>
PAT_file == <<"f", "i", "l", "e">>
PAT_path == <<"p", "a", "t", "h">>
PAT_directory == <<"d", "i", "r", "e", "c", "t", "o", "r", "y">>
PAT_config == <<"c", "o", "n", "f", "i", "g">>
PAT_env == <<"e", "n", "v">>

SAFE_400 ==
    <<"B", "a", "d", " ", "R", "e", "q", "u", "e", "s", "t", " ", "-", " ",
      "I", "n", "v", "a", "l", "i", "d", " ", "r", "e", "q", "u", "e", "s",
      "t", " ", "f", "o", "r", "m", "a", "t", " ", "o", "r", " ", "p", "a",
      "r", "a", "m", "e", "t", "e", "r", "s">>
SAFE_401 ==
    <<"U", "n", "a", "u", "t", "h", "o", "r", "i", "z", "e", "d", " ", "-",
      " ", "A", "u", "t", "h", "e", "n", "t", "i", "c", "a", "t", "i", "o",
      "n", " ", "r", "e", "q", "u", "i", "r", "e", "d">>
SAFE_403 ==
    <<"F", "o", "r", "b", "i", "d", "d", "e", "n", " ", "-", " ", "A", "c",
      "c", "e", "s", "s", " ", "d", "e", "n", "i", "e", "d">>
SAFE_404 ==
    <<"N", "o", "t", " ", "F", "o", "u", "n", "d", " ", "-", " ", "T", "h",
      "e", " ", "r", "e", "q", "u", "e", "s", "t", "e", "d", " ", "r", "e",
      "s", "o", "u", "r", "c", "e", " ", "w", "a", "s", " ", "n", "o", "t",
      " ", "f", "o", "u", "n", "d">>
SAFE_405 ==
    <<"M", "e", "t", "h", "o", "d", " ", "N", "o", "t", " ", "A", "l", "l",
      "o", "w", "e", "d", " ", "-", " ", "H", "T", "T", "P", " ", "m", "e",
      "t", "h", "o", "d", " ", "n", "o", "t", " ", "s", "u", "p", "p", "o",
      "r", "t", "e", "d", " ", "f", "o", "r", " ", "t", "h", "i", "s", " ",
      "e", "n", "d", "p", "o", "i", "n", "t">>
SAFE_406 ==
    <<"N", "o", "t", " ", "A", "c", "c", "e", "p", "t", "a", "b", "l", "e",
      " ", "-", " ", "R", "e", "q", "u", "e", "s", "t", "e", "d", " ", "f",
      "o", "r", "m", "a", "t", " ", "n", "o", "t", " ", "a", "v", "a", "i",
      "l", "a", "b", "l", "e">>
SAFE_409 ==
    <<"C", "o", "n", "f", "l", "i", "c", "t", " ", "-", " ", "R", "e", "s",
      "o", "u", "r", "c", "e", " ", "c", "o", "n", "f", "l", "i", "c", "t",
      " ", "d", "e", "t", "e", "c", "t", "e", "d">>
SAFE_413 ==
    <<"P", "a", "y", "l", "o", "a", "d", " ", "T", "o", "o", " ", "L", "a",
      "r", "g", "e", " ", "-", " ", "R", "e", "q", "u", "e", "s", "t", " ",
      "p", "a", "y", "l", "o", "a", "d", " ", "e", "x", "c", "e", "e", "d",
      "s", " ", "s", "i", "z", "e", " ", "l", "i", "m", "i", "t">>
SAFE_415 ==
    <<"U", "n", "s", "u", "p", "p", "o", "r", "t", "e", "d", " ", "M", "e",
      "d", "i", "a", " ", "T", "y", "p", "e", " ", "-", " ", "C", "o", "n",
      "t", "e", "n", "t", " ", "t", "y", "p", "e", " ", "n", "o", "t", " ",
      "s", "u", "p", "p", "o", "r", "t", "e", "d">>
SAFE_429 ==
    <<"T", "o", "o", " ", "M", "a", "n", "y", " ", "R", "e", "q", "u", "e",
      "s", "t", "s", " ", "-", " ", "R", "a", "t", "e", " ", "l", "i", "m",
      "i", "t", " ", "e", "x", "c", "e", "e", "d", "e", "d">>
SAFE_500 ==
    <<"I", "n", "t", "e", "r", "n", "a", "l", " ", "S", "e", "r", "v", "e",
      "r", " ", "E", "r", "r", "o", "r", " ", "-", " ", "A", "n", " ", "u",
      "n", "e", "x", "p", "e", "c", "t", "e", "d", " ", "e", "r", "r", "o",
      "r", " ", "o", "c", "c", "u", "r", "r", "e", "d">>
SAFE_501 ==
    <<"N", "o", "t", " ", "I", "m", "p", "l", "e", "m", "e", "n", "t", "e",
      "d", " ", "-", " ", "F", "e", "a", "t", "u", "r", "e", " ", "n", "o",
      "t", " ", "i", "m", "p", "l", "e", "m", "e", "n", "t", "e", "d">>
SAFE_502 ==
    <<"B", "a", "d", " ", "G", "a", "t", "e", "w", "a", "y", " ", "-", " ",
      "E", "x", "t", "e", "r", "n", "a", "l", " ", "s", "e", "r", "v", "i",
      "c", "e", " ", "e", "r", "r", "o", "r">>
SAFE_503 ==
    <<"S", "e", "r", "v", "i", "c", "e", " ", "U", "n", "a", "v", "a", "i",
      "l", "a", "b", "l", "e", " ", "-", " ", "S", "e", "r", "v", "i", "c",
      "e", " ", "t", "e", "m", "p", "o", "r", "a", "r", "i", "l", "y", " ",
      "u", "n", "a", "v", "a", "i", "l", "a", "b", "l", "e">>
SAFE_504 ==
    <<"G", "a", "t", "e", "w", "a", "y", " ", "T", "i", "m", "e", "o", "u",
      "t", " ", "-", " ", "E", "x", "t", "e", "r", "n", "a", "l", " ", "s",
      "e", "r", "v", "i", "c", "e", " ", "t", "i", "m", "e", "o", "u", "t">>
BadRequestPrefix ==
    <<"B", "a", "d", " ", "R", "e", "q", "u", "e", "s", "t", " ", "-", " ">>

(***************************************************************************)
(* Messages of the failures the model feeds to the error handling code     *)
(***************************************************************************)
MsgEmpty == <<>>
MsgUserNotFound ==
    <<"U", "s", "e", "r", " ", "n", "o", "t", " ", "f", "o", "u", "n", "d">>
MsgInvalidId ==
    <<"I", "n", "v", "a", "l", "i", "d", " ", "u", "s", "e", "r", " ", "I",
      "D">>
MsgTeapot ==
    <<"I", " ", "a", "m", " ", "a", " ", "t", "e", "a", "p", "o", "t">>
MsgAccess ==
    <<"A", "c", "c", "e", "s", "s", " ", "F", "O", "R", "B", "I", "D", "D",
      "E", "N", " ", "h", "e", "r", "e">>
MsgAuth ==
    <<"A", "u", "t", "h", "e", "n", "t", "i", "c", "a", "t", "i", "o", "n",
      " ", "r", "e", "q", "u", "i", "r", "e", "d">>
MsgBadToken == <<"B", "a", "d", " ", "T", "o", "K", "e", "n">>
MsgFilePath ==
    <<"n", "o", " ", "F", "I", "L", "E", " ", "a", "t", " ", "t", "h", "a",
      "t", " ", "P", "a", "t", "h">>
MsgPathFile ==
    <<"p", "a", "t", "h", " ", "b", "e", "f", "o", "r", "e", " ", "f", "i",
      "l", "e">>
MsgFileNlPath == <<"f", "i", "l", "e", "\n", "p", "a", "t", "h">>
MsgEnvNotFound ==
    <<"E", "N", "V", " ", "v", "a", "r", " ", "n", "o", "t", " ", "f", "o",
      "u", "n", "d">>
MsgLoggerType ==
    <<"l", "o", "g", "g", "e", "r", ".", "e", "r", "r", "o", "r", " ", "i",
      "s", " ", "n", "o", "t", " ", "a", " ", "f", "u", "n", "c", "t", "i",
      "o", "n">>

MsgInvalidAuth ==
    <<"I", "n", "v", "a", "l", "i", "d", " ", "a", "u", "t",
     "h", "e", "n", "t", "i", "c", "a", "t", "i", "o", "n">>

MsgForbiddenNotFound ==
    <<"F", "o", "r", "b", "i", "d", "d", "e", "n", ":", " ",
     "u", "s", "e", "r", " ", "n", "o", "t", " ", "f", "o", "u", "n", "d">>


\* A message of n filler characters
Filler(n) == [i \in 1..n |-> "x"]

(***************************************************************************)
(* middleware/errorHandler: classification                                 *)
(* A failure is a record: status and statusCode (0 = not set), name and    *)
(* ctor (constructor name), code ("" = not set) and message.               *)
(***************************************************************************)
Classification(status, category) == [status |-> status, category |-> category]

\* The object literal lists CastError twice; the later entry (404) is the one
\* the object holds.
ERROR_CLASSIFICATIONS ==
    [n \in {"ValidationError", "CastError", "SyntaxError", "URIError", "MulterError",
            "UnauthorizedError", "JsonWebTokenError", "TokenExpiredError",
            "ForbiddenError", "NotFoundError", "MethodNotAllowedError",
            "NotAcceptableError", "UnsupportedMediaTypeError", "PayloadTooLargeError",
            "TooManyRequestsError", "ConflictError", "InternalServerError",
            "NotImplementedError", "BadGatewayError", "ServiceUnavailableError",
            "GatewayTimeoutError"} |->
        CASE n \in {"ValidationError", "SyntaxError", "URIError", "MulterError"}
                 -> Classification(400, "client")
          [] n \in {"UnauthorizedError", "JsonWebTokenError", "TokenExpiredError"}
                 -> Classification(401, "client")
          [] n = "ForbiddenError" -> Classification(403, "client")
          [] n \in {"NotFoundError", "CastError"} -> Classification(404, "client")
          [] n = "MethodNotAllowedError" -> Classification(405, "client")
          [] n = "NotAcceptableError" -> Classification(406, "client")
          [] n = "UnsupportedMediaTypeError" -> Classification(415, "client")
          [] n = "PayloadTooLargeError" -> Classification(413, "client")
          [] n = "TooManyRequestsError" -> Classification(429, "client")
          [] n = "ConflictError" -> Classification(409, "client")
          [] n = "InternalServerError" -> Classification(500, "server")
          [] n = "NotImplementedError" -> Classification(501, "server")
          [] n = "BadGatewayError" -> Classification(502, "server")
          [] n = "ServiceUnavailableError" -> Classification(503, "server")
          [] n = "GatewayTimeoutError" -> Classification(504, "server")]

SAFE_ERROR_MESSAGES ==
    [s \in {400, 401, 403, 404, 405, 406, 409, 413, 415, 429, 500, 501, 502, 503, 504} |->
        CASE s = 400 -> SAFE_400 [] s = 401 -> SAFE_401 [] s = 403 -> SAFE_403
          [] s = 404 -> SAFE_404 [] s = 405 -> SAFE_405 [] s = 406 -> SAFE_406
          [] s = 409 -> SAFE_409 [] s = 413 -> SAFE_413 [] s = 415 -> SAFE_415
          [] s = 429 -> SAFE_429 [] s = 500 -> SAFE_500 [] s = 501 -> SAFE_501
          [] s = 502 -> SAFE_502 [] s = 503 -> SAFE_503 [] s = 504 -> SAFE_504]

\* error.status || error.statusCode
ExplicitStatus(error) ==
    IF error.status # 0 THEN error.status ELSE error.statusCode

\* classifyError, first check: an explicit status on the failure
ClassifyByStatus(error) ==
    LET status == ExplicitStatus(error)
    IN Classification(status,
                      IF status >= 400 /\ status < 500 THEN "client" ELSE "server")

\* classifyError, second and third check: error.name, then error.constructor.name
NameInTable(error) == error.name # "" /\ error.name \in DOMAIN ERROR_CLASSIFICATIONS

CtorInTable(error) == error.ctor # "" /\ error.ctor \in DOMAIN ERROR_CLASSIFICATIONS

\* classifyError, fourth check: the switch on error.code
ClassifyByCode(error) ==
    CASE error.code \in {"EADDRINUSE", "ECONNREFUSED", "ENOTFOUND", "ETIMEDOUT"}
             -> Classification(503, "server")
      [] error.code = "EACCES" -> Classification(403, "client")
      [] OTHER -> Classification(500, "server")

\* Variant of the fifth check with the keyword groups in the reverse order
ClassifyByMessage_ReverseOrder(error) ==
    LET message == ToLowerCase(error.message)
    IN IF error.message = <<>> THEN Classification(500, "server")
       ELSE IF Includes(message, KW_not_found)
            THEN Classification(404, "client")
       ELSE IF Includes(message, KW_forbidden) \/ Includes(message, KW_permission)
            THEN Classification(403, "client")
       ELSE IF Includes(message, KW_unauthorized) \/ Includes(message, KW_authentication)
            THEN Classification(401, "client")
       ELSE IF Includes(message, KW_validation) \/ Includes(message, KW_invalid)
            THEN Classification(400, "client")
       ELSE Classification(500, "server")

\* classifyError, fifth check and default: keywords of the lower-cased message
ClassifyByMessage(error) ==
    LET message == ToLowerCase(error.message)
    IN IF error.message = <<>> THEN Classification(500, "server")
       ELSE IF Includes(message, KW_validation) \/ Includes(message, KW_invalid)
            THEN Classification(400, "client")
       ELSE IF Includes(message, KW_unauthorized) \/ Includes(message, KW_authentication)
            THEN Classification(401, "client")
       ELSE IF Includes(message, KW_forbidden) \/ Includes(message, KW_permission)
            THEN Classification(403, "client")
       ELSE IF Includes(message, KW_not_found)
            THEN Classification(404, "client")
       ELSE Classification(500, "server")

\* Variants of classifyError with two checks in the wrong order
classifyError_NameBeforeStatus(error) ==
    IF NameInTable(error) THEN ERROR_CLASSIFICATIONS[error.name]
    ELSE IF ExplicitStatus(error) # 0 THEN ClassifyByStatus(error)
    ELSE IF CtorInTable(error) THEN ERROR_CLASSIFICATIONS[error.ctor]
    ELSE IF error.code # "" THEN ClassifyByCode(error)
    ELSE ClassifyByMessage(error)

classifyError_CodeBeforeName(error) ==
    IF ExplicitStatus(error) # 0 THEN ClassifyByStatus(error)
    ELSE IF error.code # "" THEN ClassifyByCode(error)
    ELSE IF NameInTable(error) THEN ERROR_CLASSIFICATIONS[error.name]
    ELSE IF CtorInTable(error) THEN ERROR_CLASSIFICATIONS[error.ctor]
    ELSE ClassifyByMessage(error)

classifyError_MessageBeforeCode(error) ==
    IF ExplicitStatus(error) # 0 THEN ClassifyByStatus(error)
    ELSE IF NameInTable(error) THEN ERROR_CLASSIFICATIONS[error.name]
    ELSE IF CtorInTable(error) THEN ERROR_CLASSIFICATIONS[error.ctor]
    ELSE IF ClassifyByMessage(error).status # 500 THEN ClassifyByMessage(error)
    ELSE IF error.code # "" THEN ClassifyByCode(error)
    ELSE Classification(500, "server")

classifyError(error) ==
    IF ExplicitStatus(error) # 0 THEN ClassifyByStatus(error)
    ELSE IF NameInTable(error) THEN ERROR_CLASSIFICATIONS[error.name]
    ELSE IF CtorInTable(error) THEN ERROR_CLASSIFICATIONS[error.ctor]
    ELSE IF error.code # "" THEN ClassifyByCode(error)
    ELSE ClassifyByMessage(error)

(***************************************************************************)
(* middleware/errorHandler: client-facing message                          *)
(***************************************************************************)
\* sensitivePatterns.some(pattern => pattern.test(message))
ContainsSensitiveInfo(message) ==
    \/ TestWord(message, PAT_password)
    \/ TestWord(message, PAT_token)
    \/ TestWord(message, PAT_secret)
    \/ TestWord(message, PAT_key)
    \/ TestWord(message, PAT_database)
    \/ TestWord(message, PAT_connection)
    \/ TestWord(message, PAT_internal)
    \/ TestWord(message, PAT_stack)
    \/ TestWordThenWord(message, PAT_file, PAT_path)
    \/ TestWord(message, PAT_directory)
    \/ TestWord(message, PAT_config)
    \/ TestWord(message, PAT_env)

\* The length below which a 4xx message may be passed on
SafeLengthLimit == 200

\* Variant of generateSafeErrorMessage that forgets the length limit
generateSafeErrorMessage_NoLengthLimit(statusCode, error) ==
    IF statusCode \in DOMAIN SAFE_ERROR_MESSAGES THEN SAFE_ERROR_MESSAGES[statusCode]
    ELSE IF /\ statusCode >= 400 /\ statusCode < 500 /\ error.message # <<>>
            /\ ~ContainsSensitiveInfo(error.message)
         THEN BadRequestPrefix \o error.message
    ELSE IF statusCode >= 400 /\ statusCode < 500 THEN SAFE_400
    ELSE SAFE_500

generateSafeErrorMessage(statusCode, error) ==
    IF statusCode \in DOMAIN SAFE_ERROR_MESSAGES THEN SAFE_ERROR_MESSAGES[statusCode]
    ELSE IF /\ statusCode >= 400 /\ statusCode < 500 /\ error.message # <<>>
            /\ ~ContainsSensitiveInfo(error.message)
            /\ Len(error.message) < SafeLengthLimit
         THEN BadRequestPrefix \o error.message
    ELSE IF statusCode >= 400 /\ statusCode < 500 THEN SAFE_400
    ELSE SAFE_500

(***************************************************************************)
(* Request, response and environment records                               *)
(***************************************************************************)
\* correlationId: req.correlationId ("" = not assigned);
\* hCorrelationId, hRequestId: the x-correlation-id and x-request-id request
\* headers ("" = absent)
Request(method, path, correlationId, hCorrelationId, hRequestId, body) ==
    [method |-> method, path |-> path, correlationId |-> correlationId,
     hCorrelationId |-> hCorrelationId, hRequestId |-> hRequestId, body |-> body]

NoRequest == Request("", "", "", "", "", "none")

\* The configuration module has not been loaded
NoConfig == [loaded |-> FALSE]

NoBody == [empty |-> TRUE]

\* xCorrelationId: the X-Correlation-ID response header ("" = not set);
\* sends: how many times a response body was sent
Response(headersSent, statusCode, xCorrelationId, sends, body) ==
    [headersSent |-> headersSent, statusCode |-> statusCode,
     xCorrelationId |-> xCorrelationId, sends |-> sends, body |-> body]

FreshResponse == Response(FALSE, 200, "", 0, NoBody)

\* res.status(code).json(body)
SendJson(r, code, body) ==
    [r EXCEPT !.headersSent = TRUE, !.statusCode = code, !.sends = r.sends + 1,
              !.body = body]

NoEnv == [configLoaded |-> TRUE, NODE_ENV |-> "", rss |-> 0, version |-> <<>>]

NoError ==
    [status |-> 0, statusCode |-> 0, name |-> "", ctor |-> "", code |-> "",
     message |-> <<>>]

NoClassification == [status |-> 0, category |-> ""]

NoMessage == [set |-> FALSE, text |-> <<>>]

LogLine(level, event, correlationId) ==
    [level |-> level, event |-> event, correlationId |-> correlationId]

RequestIdle ==
    /\ pc = "idle"
    /\ env = NoEnv
    /\ req = NoRequest
    /\ res = FreshResponse
    /\ err = NoError
    /\ cls = NoClassification
    /\ safeMsg = NoMessage
    /\ logs = <<>>
    /\ errorBody = NoBody
    /\ config = NoConfig
    /\ thrown = FALSE

(***************************************************************************)
(* config/logger: what the module exports                                  *)
(***************************************************************************)
LoggerExports ==
    {"logger", "createMorganStream", "createChildLogger", "addCorrelationId",
     "setLogLevel", "addFileLogging", "close", "levels"}

\* middleware/errorHandler and middleware/logger call logger.error, logger.info
\* and logger.http on the object that require('../config/logger') returns: a
\* property that object does not have is undefined, and calling it throws a
\* TypeError.
LoggerCallThrows(method) == method \notin LoggerExports

(***************************************************************************)
(* middleware/errorHandler: the handler                                    *)
(***************************************************************************)
\* extractRequestContext(req).correlationId
ContextCorrelationId(rq) ==
    IF rq.correlationId # "" THEN rq.correlationId
    ELSE IF rq.hCorrelationId # "" THEN rq.hCorrelationId
    ELSE "unknown"

\* Variant of createErrorResponse that puts the errorId into every response
createErrorResponse_AlwaysErrorId(statusCode, message, correlationId, errorId) ==
    [error |-> TRUE, status |-> statusCode, message |-> message,
     timestamp |-> "now",
     correlationId |-> IF correlationId # "" THEN correlationId ELSE "unknown",
     errorId |-> errorId]

\* createErrorResponse: errorId only from 500 on, retryAfter for 429,
\* maxSize for 413
createErrorResponse(statusCode, message, correlationId, errorId) ==
    [error |-> TRUE, status |-> statusCode, message |-> message,
     timestamp |-> "now",
     correlationId |-> IF correlationId # "" THEN correlationId ELSE "unknown"]
    @@ (IF statusCode >= 500 THEN [errorId |-> errorId] ELSE <<>>)
    @@ (IF statusCode = 429 THEN [retryAfter |-> "60s"] ELSE <<>>)
    @@ (IF statusCode = 413 THEN [maxSize |-> "10MB"] ELSE <<>>)

\* The body the handler sends when it failed itself
MinimalErrorBody ==
    [error |-> TRUE, status |-> 500, message |-> SAFE_500, timestamp |-> "now"]

\* The try block of centralizedErrorHandler: the response object, the log
\* lines written and whether the block threw
HandlerTry(e, rq, rs) ==
    LET classification == classifyError(e)
        correlationId == ContextCorrelationId(rq)
        errorLine == LogLine("error", "error", correlationId)
        safeMessage == generateSafeErrorMessage(classification.status, e)
        errorResponse == createErrorResponse(classification.status, safeMessage,
                                             correlationId, "errorId")
    IN IF LoggerCallThrows("error")
       THEN [res |-> rs, logs |-> <<>>, threw |-> TRUE]
       ELSE IF rs.headersSent
       \* res.set on a response whose headers are sent throws
       THEN [res |-> [rs EXCEPT !.statusCode = classification.status],
             logs |-> <<errorLine>>, threw |-> TRUE]
       ELSE IF LoggerCallThrows("info")
       THEN [res |-> SendJson(rs, classification.status, errorResponse),
             logs |-> <<errorLine>>, threw |-> TRUE]
       ELSE [res |-> SendJson(rs, classification.status, errorResponse),
             logs |-> <<errorLine,
                        LogLine("info", "Error handled successfully", correlationId)>>,
             threw |-> FALSE]

\* centralizedErrorHandler(err, req, res, next): the try block, and the catch
\* block when it threw; thrown = an exception leaves the handler
centralizedErrorHandler(e, rq, rs) ==
    LET try == HandlerTry(e, rq, rs)
    IN IF ~try.threw
       THEN [res |-> try.res, logs |-> try.logs, thrown |-> FALSE]
       ELSE IF LoggerCallThrows("error")
       THEN [res |-> try.res, logs |-> try.logs, thrown |-> TRUE]
       ELSE [res |-> IF try.res.headersSent THEN try.res
                     ELSE SendJson(try.res, 500, MinimalErrorBody),
             logs |-> Append(try.logs,
                        LogLine("error", "Critical error in error handler middleware", "")),
             thrown |-> FALSE]


(***************************************************************************)
(* server.js: listener, connection tracking, graceful shutdown             *)
(***************************************************************************)
Conns == 1..MaxConns

ShutdownTriggers == {"SIGTERM", "SIGINT", "UNCAUGHT_EXCEPTION", "UNHANDLED_REJECTION"}

ListenErrors == {"EADDRINUSE", "EACCES", "OTHER"}

ServerIdle ==
    /\ phase = "starting"
    /\ sock = [c \in Conns |-> "none"]
    /\ connections = {}
    /\ closeCbs = <<>>
    /\ timerArmed = FALSE
    /\ intervalArmed = FALSE
    /\ exitCode = -1
    /\ signals = 0

\* server.listen callback: the listener is bound
Listen ==
    /\ phase = "starting"
    /\ phase' = "listening"
    /\ UNCHANGED <<sock, connections, closeCbs, timerArmed, intervalArmed,
                   exitCode, signals>>
    /\ UNCHANGED requestVars
    /\ UNCHANGED config

\* server.on('error'): every branch ends the process with code 1
ServerError(code) ==
    /\ phase = "starting"
    /\ phase' = "exited"
    /\ exitCode' = 1
    /\ UNCHANGED <<sock, connections, closeCbs, timerArmed, intervalArmed, signals>>
    /\ UNCHANGED requestVars
    /\ UNCHANGED config

\* server.on('connection'): a new socket is accepted and tracked
Connection(c) ==
    /\ phase = "listening"
    /\ sock[c] = "none"
    /\ sock' = [sock EXCEPT ![c] = "open"]
    /\ connections' = connections \cup {c}
    /\ UNCHANGED <<phase, closeCbs, timerArmed, intervalArmed, exitCode, signals>>
    /\ UNCHANGED requestVars
    /\ UNCHANGED config

\* The socket ends (peer or server side): the listener no longer counts it,
\* its 'close' event is still to be delivered.
SocketEnd(c) ==
    /\ phase \in {"listening", "closing"}
    /\ sock[c] = "open"
    /\ sock' = [sock EXCEPT ![c] = "ended"]
    /\ UNCHANGED <<phase, connections, closeCbs, timerArmed, intervalArmed,
                   exitCode, signals>>
    /\ UNCHANGED requestVars
    /\ UNCHANGED config

\* Variant of the 'close' handler that leaves the set as it is
ConnectionClose_NoDelete(c) ==
    /\ phase \in {"listening", "closing"}
    /\ sock[c] = "ended"
    /\ sock' = [sock EXCEPT ![c] = "closed"]
    /\ UNCHANGED <<phase, connections, closeCbs, timerArmed, intervalArmed,
                   exitCode, signals>>
    /\ UNCHANGED requestVars
    /\ UNCHANGED config

\* connection.on('close'): the socket leaves the tracked set
ConnectionClose(c) ==
    /\ phase \in {"listening", "closing"}
    /\ sock[c] = "ended"
    /\ sock' = [sock EXCEPT ![c] = "closed"]
    /\ connections' = connections \ {c}
    /\ UNCHANGED <<phase, closeCbs, timerArmed, intervalArmed, exitCode, signals>>
    /\ UNCHANGED requestVars
    /\ UNCHANGED config

\* The requests the listener receives
ServerRequests ==
    {Request(method, path, "", "", "", "none") :
        method \in {"GET", "POST"},
        path \in {"/", "/health", "/api/users", "/api/error?type=async"}}

\* A request arrives on an open connection: the 'request' event is pending
HttpRequest(c, rq) ==
    /\ phase \in {"listening", "closing"}
    /\ sock[c] = "open"
    /\ pc = "idle"
    /\ signals < MaxSignals
    /\ req' = rq
    /\ pc' = "received"
    /\ UNCHANGED <<env, res, err, cls, safeMsg, logs, errorBody, thrown>>
    /\ UNCHANGED serverVars
    /\ UNCHANGED config

\* Shutdown triggers that are certain to come: the listener of a pending
\* request will raise one
PendingFaults == IF pc = "received" THEN 1 ELSE 0

\* What the process handlers write to the console before the shutdown starts:
\* the handlers of uncaughtException and unhandledRejection print the fault,
\* then gracefulShutdown prints the trigger it got.
FaultDetail(signal) ==
    IF signal = "UNCAUGHT_EXCEPTION"
    THEN <<LogLine("error", "Uncaught Exception:", "")>>
    ELSE IF signal = "UNHANDLED_REJECTION"
    THEN <<LogLine("error", "Unhandled Rejection at:", "")>>
    ELSE <<>>

\* process.on(trigger) followed by gracefulShutdown(signal):
\* server.close(callback) stops accepting and registers the callback for the
\* listener's 'close' event; a close of a listener that is already closed
\* hands the callback an error.
gracefulShutdown(signal) ==
    /\ phase \in {"listening", "closing"}
    /\ signals + PendingFaults < MaxSignals
    /\ signals' = signals + 1
    /\ logs' = logs \o FaultDetail(signal)
                    \o <<LogLine("log", signal, "")>>
    /\ closeCbs' = Append(closeCbs, phase = "closing")
    /\ phase' = "closing"
    /\ UNCHANGED <<sock, connections, timerArmed, intervalArmed, exitCode>>
    /\ UNCHANGED <<pc, env, req, res, err, cls, safeMsg, errorBody, thrown>>
    /\ UNCHANGED config

\* The function given to http.createServer is the factory createApp, not an
\* application: the 'request' event calls createApp(req, res), which builds a
\* new application, throws at app.use(loggerMiddleware) and never touches the
\* response.  The exception is an uncaught one: the handler of server.js
\* prints it and starts the shutdown.
RequestListener ==
    /\ pc = "received"
    /\ phase \in {"listening", "closing"}
    /\ pc' = "uncaught"
    /\ thrown' = TRUE
    /\ signals' = signals + 1
    /\ logs' = logs \o FaultDetail("UNCAUGHT_EXCEPTION")
                    \o <<LogLine("log", "UNCAUGHT_EXCEPTION", "")>>
    /\ closeCbs' = Append(closeCbs, phase = "closing")
    /\ phase' = "closing"
    /\ UNCHANGED <<sock, connections, timerArmed, intervalArmed, exitCode>>
    /\ UNCHANGED <<env, req, res, err, cls, safeMsg, errorBody>>
    /\ UNCHANGED config

\* One run of the callback given to server.close, on the process state st
CloseCallback(error, st) ==
    IF st.exit # -1 THEN st
    ELSE IF error THEN [st EXCEPT !.exit = 1]
    ELSE IF connections = {}
         THEN [st EXCEPT !.timer = FALSE, !.exit = 0]
         ELSE [st EXCEPT !.timer = TRUE, !.interval = TRUE]

RECURSIVE RunCloseCallbacks(_, _)
RunCloseCallbacks(cbs, st) ==
    IF cbs = <<>> THEN st
    ELSE RunCloseCallbacks(Tail(cbs), CloseCallback(Head(cbs), st))

\* The listener's 'close' event: emitted once it no longer listens and no
\* connection is left; the registered callbacks run in order.
ServerClosed ==
    /\ phase = "closing"
    /\ closeCbs # <<>>
    /\ \A c \in Conns : sock[c] # "open"
    /\ LET st == RunCloseCallbacks(closeCbs,
                    [timer |-> timerArmed, interval |-> intervalArmed, exit |-> exitCode])
       IN /\ timerArmed' = st.timer
          /\ intervalArmed' = st.interval
          /\ exitCode' = st.exit
          /\ phase' = IF st.exit = -1 THEN phase ELSE "exited"
    /\ closeCbs' = <<>>
    /\ UNCHANGED <<sock, connections, signals>>
    /\ UNCHANGED requestVars
    /\ UNCHANGED config

\* The 10 second shutdownTimeout fires: destroy what is tracked, exit 0
ShutdownTimeout ==
    /\ phase = "closing"
    /\ timerArmed
    /\ sock' = [c \in Conns |-> IF c \in connections /\ sock[c] = "open"
                                THEN "ended" ELSE sock[c]]
    /\ timerArmed' = FALSE
    /\ exitCode' = 0
    /\ phase' = "exited"
    /\ UNCHANGED <<connections, closeCbs, intervalArmed, signals>>
    /\ UNCHANGED requestVars
    /\ UNCHANGED config

\* The 100 ms checkConnections interval fires
CheckConnections ==
    /\ phase = "closing"
    /\ intervalArmed
    /\ connections = {}
    /\ intervalArmed' = FALSE
    /\ timerArmed' = FALSE
    /\ exitCode' = 0
    /\ phase' = "exited"
    /\ UNCHANGED <<sock, connections, closeCbs, signals>>
    /\ UNCHANGED requestVars
    /\ UNCHANGED config

ServerInit == ServerIdle /\ RequestIdle

ServerNext ==
    \/ Listen
    \/ \E code \in ListenErrors : ServerError(code)
    \/ \E c \in Conns : Connection(c)
    \/ \E c \in Conns : SocketEnd(c)
    \/ \E c \in Conns : ConnectionClose(c)
    \/ \E s \in ShutdownTriggers : gracefulShutdown(s)
    \/ \E c \in Conns, rq \in ServerRequests : HttpRequest(c, rq)
    \/ RequestListener
    \/ ServerClosed
    \/ ShutdownTimeout
    \/ CheckConnections


(***************************************************************************)
(* The failures, requests and actions of the error handling specification  *)
(***************************************************************************)
Messages ==
    {MsgEmpty, MsgUserNotFound, MsgInvalidId, MsgTeapot, MsgAccess, MsgAuth,
     MsgBadToken, MsgFilePath, MsgPathFile, MsgFileNlPath, MsgEnvNotFound,
     MsgLoggerType}

\* Messages just below and at the length limit of generateSafeErrorMessage
LongMessages == {Filler(SafeLengthLimit - 1), Filler(SafeLengthLimit)}

Failures ==
    [status : {0, 200, 400, 404, 422, 499, 500, 503, 599},
     statusCode : {0, 404, 503},
     name : {"Error", "ValidationError", "CastError", "GatewayTimeoutError", "CustomError"},
     ctor : {"Error", "SyntaxError"},
     code : {"", "ECONNREFUSED", "ETIMEDOUT", "ENOTFOUND", "EADDRINUSE", "EACCES", "EPIPE"},
     message : Messages]
    \cup
    [status : {0, 400, 418, 499, 500},
     statusCode : {0},
     name : {"Error", "CustomError"},
     ctor : {"Error"},
     code : {"", "EACCES"},
     message : LongMessages]
    \cup
    [status : {0, 99, 100, 600, 700},
     statusCode : {0, 42, 1000},
     name : {"Error", "ValidationError"},
     ctor : {"Error"},
     code : {""},
     message : {MsgEmpty, MsgUserNotFound, MsgInvalidAuth, MsgForbiddenNotFound}]

ErrorRequests ==
    {Request("GET", "/api/users/150", cid, h, "", "none") :
        cid \in {"", "uuid-1"}, h \in {"", "client-1"}}

ErrInit ==
    /\ ServerIdle
    /\ pc = "failure"
    /\ env = NoEnv
    /\ req = NoRequest
    /\ res = FreshResponse
    /\ err \in Failures
    /\ cls = NoClassification
    /\ safeMsg = NoMessage
    /\ logs = <<>>
    /\ errorBody = NoBody
    /\ config = NoConfig
    /\ thrown = FALSE

\* classifyError(err)
Classify ==
    /\ pc = "failure"
    /\ cls' = classifyError(err)
    /\ pc' = "classified"
    /\ UNCHANGED <<env, req, res, err, safeMsg, logs, thrown>>
    /\ UNCHANGED errorBody
    /\ UNCHANGED serverVars
    /\ UNCHANGED config

\* generateSafeErrorMessage(classification.status, err)
SafeMessage ==
    /\ pc = "classified"
    /\ safeMsg' = [set |-> TRUE, text |-> generateSafeErrorMessage(cls.status, err)]
    /\ pc' = "messaged"
    /\ UNCHANGED <<env, req, res, err, cls, logs, thrown>>
    /\ UNCHANGED errorBody
    /\ UNCHANGED serverVars
    /\ UNCHANGED config

\* createErrorResponse(classification.status, safeMessage, correlationId,
\* errorId) for the request rq
CreateErrorResponse(rq) ==
    /\ pc = "messaged"
    /\ errorBody' = createErrorResponse(cls.status, safeMsg.text,
                                        ContextCorrelationId(rq), "errorId")
    /\ req' = rq
    /\ pc' = "composed"
    /\ UNCHANGED <<env, res, err, cls, safeMsg, logs, thrown>>
    /\ UNCHANGED serverVars
    /\ UNCHANGED config

\* Express hands the failure to centralizedErrorHandler, for a request rq
\* whose response may already have been started
HandleError(rq, started) ==
    /\ pc = "failure"
    /\ LET out == centralizedErrorHandler(err, rq,
                      [FreshResponse EXCEPT !.headersSent = started,
                                            !.xCorrelationId = rq.correlationId])
       IN /\ res' = out.res
          /\ logs' = out.logs
          /\ thrown' = out.thrown
    /\ req' = rq
    /\ pc' = "handled"
    /\ UNCHANGED <<env, err, cls, safeMsg>>
    /\ UNCHANGED errorBody
    /\ UNCHANGED serverVars
    /\ UNCHANGED config

ErrNext ==
    \/ Classify
    \/ SafeMessage
    \/ \E rq \in ErrorRequests : CreateErrorResponse(rq)
    \/ \E rq \in ErrorRequests : \E started \in BOOLEAN : HandleError(rq, started)

(***************************************************************************)
(* routes/health: health, ping and readiness handlers                      *)
(*                                                                         *)
(* A check message is a sequence of text parts; a template literal is the  *)
(* concatenation of its parts and join puts the separator between them.    *)
(* The environment record holds what the handlers read from the process:   *)
(*   configLoaded  require('../config/index') succeeded                    *)
(*   NODE_ENV      process.env.NODE_ENV ("" = unset)                       *)
(*   rss           process.memoryUsage().rss in bytes                      *)
(*   version       process.version, as characters                          *)
(***************************************************************************)
RECURSIVE Join(_, _)
Join(parts, separator) ==
    IF parts = <<>> THEN <<>>
    ELSE IF Len(parts) = 1 THEN Head(parts)
    ELSE Head(parts) \o <<separator>> \o Join(Tail(parts), separator)

\* Math.round(numerator / denominator) for non-negative operands
MathRound(numerator, denominator) ==
    (2 * numerator + denominator) \div (2 * denominator)

Digits == <<"0", "1", "2", "3", "4", "5", "6", "7", "8", "9">>

DigitValue(c) == (CHOOSE i \in 1..10 : Digits[i] = c) - 1

IsDigit(c) == \E i \in 1..10 : Digits[i] = c

\* parseInt(text): the value of the leading decimal digits
RECURSIVE ParseInt(_, _)
ParseInt(text, acc) ==
    IF text = <<>> \/ ~IsDigit(Head(text)) THEN acc
    ELSE ParseInt(Tail(text), 10 * acc + DigitValue(Head(text)))

\* parseInt(process.version.slice(1).split('.')[0])
MajorVersion(version) == ParseInt(Tail(version), 0)

\* The config object of the router: the configuration module, which has no
\* NODE_ENV, HOST or PORT property ("" = undefined), or the fallback object
\* built from the environment variables when the module did not load.
HealthConfig(e) ==
    IF e.configLoaded
    THEN [NODE_ENV |-> "", HOST |-> "", PORT |-> ""]
    ELSE [NODE_ENV |-> IF e.NODE_ENV # "" THEN e.NODE_ENV ELSE "development",
          PORT |-> "3000", HOST |-> "127.0.0.1"]

Check(healthy, message) == [healthy |-> healthy, message |-> message]

validateProcessHealth(e) == Check(TRUE, <<"Process healthy">>)

validateMemoryUsage(e) ==
    LET rssMB == MathRound(e.rss, 1024 * 1024)
        memoryThresholdMB == IF HealthConfig(e).NODE_ENV = "production" THEN 150 ELSE 100
        healthy == rssMB < memoryThresholdMB
    IN Check(healthy,
             IF healthy THEN <<"Memory usage within limits">>
             ELSE <<"Memory usage exceeded threshold: ", ToString(rssMB), "MB > ",
                    ToString(memoryThresholdMB), "MB">>)

validateConfiguration(e) ==
    LET Missing(key) == HealthConfig(e)[key] = ""
        missingConfig == SelectSeq(<<"NODE_ENV", "HOST", "PORT">>, Missing)
    IN IF missingConfig # <<>>
       THEN Check(FALSE, <<"Missing required configuration: ">>
                         \o Join([i \in 1..Len(missingConfig) |-> <<missingConfig[i]>>], ", "))
       ELSE Check(TRUE, <<"Configuration validated">>)

validateEnvironment(e) ==
    IF MajorVersion(e.version) < 14
    THEN Check(FALSE, <<"Node.js version ">> \o e.version
                      \o <<" below minimum required v", "14", ".x">>)
    ELSE Check(TRUE, <<"Environment validated">>)

\* checkExpressDependency, checkLoggerDependency and checkConfigDependency
\* report available: the router has loaded express itself and the other two
\* report available in both of their branches.
validateDependencies(e) == Check(TRUE, <<"All dependencies available">>)

HealthCheckNames == <<"process", "memory", "configuration", "environment", "dependencies">>

\* Variant of FailureMessages that lists the messages without the names
FailureMessages_WithoutNames(names, checks) ==
    Join([i \in 1..Len(names) |-> checks[names[i]].message], ", ")

\* "key: message" of the listed checks, joined by ", "
FailureMessages(names, checks) ==
    Join([i \in 1..Len(names) |-> <<names[i], ": ">> \o checks[names[i]].message], ", ")

\* Variant of performHealthChecks that leaves the environment check out
performHealthChecks_WithoutEnvironment(e) ==
    LET checks == [process |-> validateProcessHealth(e),
                   memory |-> validateMemoryUsage(e),
                   configuration |-> validateConfiguration(e),
                   environment |-> validateEnvironment(e),
                   dependencies |-> validateDependencies(e)]
        Failed(key) == key # "environment" /\ ~checks[key].healthy
        failedChecks == SelectSeq(HealthCheckNames, Failed)
    IN [threw |-> failedChecks # <<>>,
        checks |-> checks,
        message |-> <<"Health check failures: ">> \o FailureMessages(failedChecks, checks)]

\* performHealthChecks: threw = the function throws, with the given message
performHealthChecks(e) ==
    LET checks == [process |-> validateProcessHealth(e),
                   memory |-> validateMemoryUsage(e),
                   configuration |-> validateConfiguration(e),
                   environment |-> validateEnvironment(e),
                   dependencies |-> validateDependencies(e)]
        Failed(key) == ~checks[key].healthy
        failedChecks == SelectSeq(HealthCheckNames, Failed)
    IN [threw |-> failedChecks # <<>>,
        checks |-> checks,
        message |-> <<"Health check failures: ">> \o FailureMessages(failedChecks, checks)]

Readiness(ready, message) == [ready |-> ready, message |-> message]

\* typeof require === 'function' && process.versions.node
validateServerReadiness(e) == Readiness(TRUE, <<"Server ready">>)

validateConfigurationReadiness(e) ==
    LET essential == /\ HealthConfig(e).HOST # ""
                     /\ HealthConfig(e).PORT # ""
                     /\ HealthConfig(e).NODE_ENV # ""
    IN Readiness(essential,
                 IF essential THEN <<"Configuration ready">>
                 ELSE <<"Configuration incomplete">>)

validateDependencyReadiness(e) == Readiness(TRUE, <<"Dependencies ready">>)

ReadinessCheckNames == <<"server", "configuration", "dependencies">>

\* Variant of performReadinessChecks that leaves the configuration check out
performReadinessChecks_WithoutConfiguration(e) ==
    LET checks == [server |-> validateServerReadiness(e),
                   configuration |-> validateConfigurationReadiness(e),
                   dependencies |-> validateDependencyReadiness(e)]
        NotReady(key) == key # "configuration" /\ ~checks[key].ready
        notReady == SelectSeq(ReadinessCheckNames, NotReady)
    IN [ready |-> notReady = <<>>,
        checks |-> checks,
        failureReason |-> FailureMessages(notReady, checks)]

performReadinessChecks(e) ==
    LET checks == [server |-> validateServerReadiness(e),
                   configuration |-> validateConfigurationReadiness(e),
                   dependencies |-> validateDependencyReadiness(e)]
        NotReady(key) == ~checks[key].ready
        notReady == SelectSeq(ReadinessCheckNames, NotReady)
    IN [ready |-> notReady = <<>>,
        checks |-> checks,
        failureReason |-> FailureMessages(notReady, checks)]

\* req.headers['x-correlation-id'] || req.headers['x-request-id'] || generated
HandlerCorrelationId(rq, prefix) ==
    IF rq.hCorrelationId # "" THEN rq.hCorrelationId
    ELSE IF rq.hRequestId # "" THEN rq.hRequestId
    ELSE prefix

\* GET /health of the router
HealthHandler ==
    /\ pc = "request"
    /\ req.path = "/health"
    /\ LET correlationId == HandlerCorrelationId(req, "health-generated")
           healthStatus == performHealthChecks(env)
       IN IF ~healthStatus.threw
          THEN /\ logs' = Append(logs, LogLine("http", "Health check successful",
                                               correlationId))
               /\ res' = SendJson(res, 200,
                             [status |-> "ok",
                              environment |-> HealthConfig(env).NODE_ENV,
                              correlationId |-> correlationId])
          ELSE /\ logs' = Append(logs, LogLine("error", "Health check failed",
                                               correlationId))
               /\ res' = SendJson(res, 503,
                             [status |-> "error",
                              message |-> "Health check failed",
                              error |-> healthStatus.message,
                              environment |-> HealthConfig(env).NODE_ENV,
                              correlationId |-> correlationId])
    /\ pc' = "responded"
    /\ UNCHANGED <<env, req, err, cls, safeMsg, thrown>>
    /\ UNCHANGED errorBody
    /\ UNCHANGED serverVars
    /\ UNCHANGED config

\* The methods of the router's logger that its handlers call: the winston
\* logger exported by config/logger has them, and so has the console fallback
HealthLoggerMethods == {"info", "error", "http"}

\* Variant of the router's logger without an http method
HealthLoggerThrows_NoHttp(method) == method = "http"

\* logger.<method>(...) of the router throws
HealthLoggerThrows(method) == method \notin HealthLoggerMethods

\* GET /ping of the router: the acknowledgement is logged and sent; the catch
\* block logs the failure and answers 503
PingHandler ==
    /\ pc = "request"
    /\ req.path = "/ping"
    /\ LET correlationId == HandlerCorrelationId(req, "ping-generated")
       IN IF ~HealthLoggerThrows("http")
          THEN /\ logs' = Append(logs, LogLine("http", "Ping health check", correlationId))
               /\ res' = SendJson(res, 200,
                             [status |-> "ok", correlationId |-> correlationId])
               /\ thrown' = FALSE
          ELSE IF ~HealthLoggerThrows("error")
          THEN /\ logs' = Append(logs, LogLine("error", "Ping health check failed",
                                               correlationId))
               /\ res' = SendJson(res, 503,
                             [status |-> "error", message |-> "Ping failed",
                              correlationId |-> correlationId])
               /\ thrown' = FALSE
          ELSE /\ logs' = logs
               /\ res' = res
               /\ thrown' = TRUE
    /\ pc' = "responded"
    /\ UNCHANGED <<env, req, err, cls, safeMsg>>
    /\ UNCHANGED errorBody
    /\ UNCHANGED serverVars
    /\ UNCHANGED config

\* GET /ready of the router
ReadyHandler ==
    /\ pc = "request"
    /\ req.path = "/ready"
    /\ LET correlationId == HandlerCorrelationId(req, "ready-generated")
           readinessChecks == performReadinessChecks(env)
       IN IF readinessChecks.ready
          THEN /\ logs' = Append(logs, LogLine("info", "Service readiness check passed",
                                               correlationId))
               /\ res' = SendJson(res, 200,
                             [status |-> "ready",
                              checks |-> readinessChecks.checks,
                              correlationId |-> correlationId])
          ELSE /\ logs' = Append(logs, LogLine("error", "Service readiness check failed",
                                               correlationId))
               /\ res' = SendJson(res, 503,
                             [status |-> "not ready",
                              message |-> "Service not ready",
                              error |-> <<"Readiness check failed: ">>
                                        \o readinessChecks.failureReason,
                              correlationId |-> correlationId])
    /\ pc' = "responded"
    /\ UNCHANGED <<env, req, err, cls, safeMsg, thrown>>
    /\ UNCHANGED errorBody
    /\ UNCHANGED serverVars
    /\ UNCHANGED config

Versions ==
    {<<"v", "9", ".", "1", "1", ".", "2">>,
     <<"v", "1", "2", ".", "2", "2", ".", "1">>,
     <<"v", "1", "4", ".", "0", ".", "0">>,
     <<"v", "2", "0", ".", "1", "1", ".", "0">>}

\* Resident set sizes around the two thresholds: 50 MB, 99.4 MB, 99.5 MB,
\* 100 MB, 149.6 MB, 160 MB
RssValues == {52428800, 104228454, 104333312, 104857600, 156866970, 167772160}

Environments ==
    [configLoaded : BOOLEAN,
     NODE_ENV : {"", "production", "development"},
     rss : RssValues,
     version : Versions]

\* Requests to the router: with or without the tracing headers, and with or
\* without a correlation identifier assigned by correlationIdMiddleware
HealthRequests ==
    {Request("GET", path, cid, h, r, "none") :
        path \in {"/health", "/ping", "/ready"}, cid \in {"", "uuid-1"},
        h \in {"", "client-1"}, r \in {"", "request-1"}}

HealthInit ==
    /\ ServerIdle
    /\ pc = "request"
    /\ env \in Environments
    /\ req \in HealthRequests
    /\ res = [FreshResponse EXCEPT !.xCorrelationId = req.correlationId]
    /\ err = NoError
    /\ cls = NoClassification
    /\ safeMsg = NoMessage
    /\ logs = <<>>
    /\ errorBody = NoBody
    /\ config = NoConfig
    /\ thrown = FALSE

HealthNext == HealthHandler \/ PingHandler \/ ReadyHandler

(***************************************************************************)
(* middleware/logger: correlationIdMiddleware                              *)
(***************************************************************************)
\* The TypeError of a call of a method the logger object does not have
LoggerTypeError ==
    [status |-> 0, statusCode |-> 0, name |-> "TypeError", ctor |-> "TypeError",
     code |-> "", message |-> MsgLoggerType]

\* correlationIdMiddleware(req, res, next) with the generated identifier id:
\* the identifier is put on the request and into the response header, then the
\* request is logged; the catch block logs and continues.  thrown = the log
\* call of the catch block threw as well and the exception leaves the function.
correlationIdMiddleware(rq, rs, id) ==
    LET assigned == [rq EXCEPT !.correlationId = id]
        withHeader == [rs EXCEPT !.xCorrelationId = id]
    IN IF ~LoggerCallThrows("info")
       THEN [req |-> assigned, res |-> withHeader,
             logs |-> <<LogLine("info", "Request initiated", id)>>, thrown |-> FALSE]
       ELSE IF ~LoggerCallThrows("error")
       THEN [req |-> assigned, res |-> withHeader,
             logs |-> <<LogLine("error", "Correlation ID middleware error", "")>>,
             thrown |-> FALSE]
       ELSE [req |-> assigned, res |-> withHeader, logs |-> <<>>, thrown |-> TRUE]

(***************************************************************************)
(* app.js: the middleware pipeline of createApp, in the order of its       *)
(* app.use calls.  pc names the layer the request is at; a layer that      *)
(* fails hands its error to the error handling layer at the end.           *)
(***************************************************************************)
\* The error body-parser raises for the body of the request (NoError = none)
BodyParseError(body) ==
    CASE body = "json-malformed" ->
             [status |-> 400, statusCode |-> 400, name |-> "SyntaxError",
              ctor |-> "SyntaxError", code |-> "", message |-> MsgInvalidId]
      [] body = "json-too-large" ->
             [status |-> 413, statusCode |-> 413, name |-> "PayloadTooLargeError",
              ctor |-> "PayloadTooLargeError", code |-> "", message |-> MsgTeapot]
      [] OTHER -> NoError

\* 1. morgan: registers the request for logging and passes it on
Morgan ==
    /\ pc = "morgan"
    /\ pc' = "json"
    /\ UNCHANGED <<env, req, res, err, cls, safeMsg, logs, thrown>>
    /\ UNCHANGED errorBody
    /\ UNCHANGED serverVars
    /\ UNCHANGED config

\* 2. bodyParser.json: parses a JSON body or fails with a 400 or 413 error
BodyParserJson ==
    /\ pc = "json"
    /\ err' = BodyParseError(req.body)
    /\ pc' = IF BodyParseError(req.body) = NoError THEN "urlencoded" ELSE "errorHandler"
    /\ UNCHANGED <<env, req, res, cls, safeMsg, logs, thrown>>
    /\ UNCHANGED errorBody
    /\ UNCHANGED serverVars
    /\ UNCHANGED config

BodyParserUrlencoded ==
    /\ pc = "urlencoded"
    /\ pc' = "text"
    /\ UNCHANGED <<env, req, res, err, cls, safeMsg, logs, thrown>>
    /\ UNCHANGED errorBody
    /\ UNCHANGED serverVars
    /\ UNCHANGED config

BodyParserText ==
    /\ pc = "text"
    /\ pc' = "cors"
    /\ UNCHANGED <<env, req, res, err, cls, safeMsg, logs, thrown>>
    /\ UNCHANGED errorBody
    /\ UNCHANGED serverVars
    /\ UNCHANGED config

\* 3. cors: answers an OPTIONS request itself with 204 and an empty body,
\* passes every other request on
Cors ==
    /\ pc = "cors"
    /\ IF req.method = "OPTIONS"
       THEN /\ res' = [res EXCEPT !.headersSent = TRUE, !.statusCode = 204,
                                  !.sends = res.sends + 1]
            /\ pc' = "responded"
       ELSE /\ res' = res
            /\ pc' = "helmet"
    /\ UNCHANGED <<env, req, err, cls, safeMsg, logs, thrown>>
    /\ UNCHANGED errorBody
    /\ UNCHANGED serverVars
    /\ UNCHANGED config

\* 4. helmet: sets the security headers and passes the request on
Helmet ==
    /\ pc = "helmet"
    /\ pc' = "logger"
    /\ UNCHANGED <<env, req, res, err, cls, safeMsg, logs, thrown>>
    /\ UNCHANGED errorBody
    /\ UNCHANGED serverVars
    /\ UNCHANGED config

\* 5. the logger middleware: correlationIdMiddleware, the first function of
\* the stack middleware/logger exports
LoggerMiddleware ==
    /\ pc = "logger"
    /\ LET out == correlationIdMiddleware(req, res, "uuid-1")
       IN /\ req' = out.req
          /\ res' = out.res
          /\ logs' = logs \o out.logs
          /\ err' = IF out.thrown THEN LoggerTypeError ELSE err
          /\ pc' = IF out.thrown THEN "errorHandler" ELSE "routes"
    /\ UNCHANGED <<env, cls, safeMsg, thrown>>
    /\ UNCHANGED errorBody
    /\ UNCHANGED serverVars
    /\ UNCHANGED config

\* The error handling layer at the end: centralizedErrorHandler; an exception
\* that leaves it is left to the framework
ErrorHandler ==
    /\ pc = "errorHandler"
    /\ LET out == centralizedErrorHandler(err, req, res)
       IN /\ res' = out.res
          /\ logs' = logs \o out.logs
          /\ thrown' = out.thrown
          /\ pc' = IF out.thrown THEN "unhandled" ELSE "responded"
    /\ UNCHANGED <<env, req, err, cls, safeMsg>>
    /\ UNCHANGED errorBody
    /\ UNCHANGED serverVars
    /\ UNCHANGED config

PipeRequests ==
    {Request(method, path, "", h, "", body) :
        method \in {"GET", "POST", "OPTIONS"},
        path \in {"/", "/health", "/api/users", "/nope"},
        h \in {"", "client-1"},
        body \in {"none", "json", "json-malformed", "json-too-large"}}

PipeInit ==
    /\ ServerIdle
    /\ pc = "morgan"
    /\ env = NoEnv
    /\ req \in PipeRequests
    /\ res = FreshResponse
    /\ err = NoError
    /\ cls = NoClassification
    /\ safeMsg = NoMessage
    /\ logs = <<>>
    /\ errorBody = NoBody
    /\ config = NoConfig
    /\ thrown = FALSE

PipeNext ==
    \/ Morgan
    \/ BodyParserJson
    \/ BodyParserUrlencoded
    \/ BodyParserText
    \/ Cors
    \/ Helmet
    \/ LoggerMiddleware
    \/ ErrorHandler

(***************************************************************************)
(* routes/api: user lookup and the catch-all of the API router             *)
(*                                                                         *)
(* A request to /users/:id carries the text of the id parameter in the     *)
(* field id, as characters.                                                *)
(***************************************************************************)
\* parseInt(text) for decimal text: an optional sign and the leading digits;
\* nan = there is no digit to read
JsParseInt(text) ==
    LET negative == text # <<>> /\ Head(text) = "-"
        signed == text # <<>> /\ Head(text) \in {"-", "+"}
        digits == IF signed THEN Tail(text) ELSE text
    IN [nan |-> digits = <<>> \/ ~IsDigit(Head(digits)),
        value |-> IF negative THEN 0 - ParseInt(digits, 0) ELSE ParseInt(digits, 0)]

ApiErrorBody(message, code) ==
    [success |-> FALSE, error |-> [message |-> message, code |-> code]]

\* router.get('/users/:id')
GetUserById ==
    /\ pc = "request"
    /\ req.method = "GET"
    /\ req.path = "/users/:id"
    /\ LET userId == JsParseInt(req.id)
       IN res' = IF userId.nan \/ userId.value = 0 \/ userId.value < 1
                 THEN SendJson(res, 400,
                               ApiErrorBody("Invalid user ID provided", "INVALID_PARAMETER"))
                 ELSE IF userId.value > 100
                 THEN SendJson(res, 404, ApiErrorBody("User not found", "USER_NOT_FOUND"))
                 ELSE SendJson(res, 200,
                               [success |-> TRUE, data |-> [id |-> userId.value]])
    /\ pc' = "responded"
    /\ UNCHANGED <<env, req, err, cls, safeMsg, logs, thrown>>
    /\ UNCHANGED errorBody
    /\ UNCHANGED serverVars
    /\ UNCHANGED config

\* router.use('*'): no route of the API router matches
ApiNotFound ==
    /\ pc = "request"
    /\ req.path = "*"
    /\ res' = SendJson(res, 404,
                       ApiErrorBody("API endpoint not found", "ENDPOINT_NOT_FOUND"))
    /\ pc' = "responded"
    /\ UNCHANGED <<env, req, err, cls, safeMsg, logs, thrown>>
    /\ UNCHANGED errorBody
    /\ UNCHANGED serverVars
    /\ UNCHANGED config

\* The name and email properties of the parsed request body are present and
\* not empty; the body "none" is the empty object
HasName(body) == body \in {"user", "no-email"}

HasEmail(body) == body \in {"user", "no-name"}

\* router.put('/users/:id'): the id is validated, then the body, then the
\* lookup fails for an id above 100
PutUserById ==
    /\ pc = "request"
    /\ req.method = "PUT"
    /\ req.path = "/users/:id"
    /\ LET userId == JsParseInt(req.id)
       IN res' = IF userId.nan \/ userId.value = 0 \/ userId.value < 1
                 THEN SendJson(res, 400,
                               ApiErrorBody("Invalid user ID provided", "INVALID_PARAMETER"))
                 ELSE IF ~HasName(req.body) \/ ~HasEmail(req.body)
                 THEN SendJson(res, 400,
                               ApiErrorBody("Missing required fields", "VALIDATION_ERROR"))
                 ELSE IF userId.value > 100
                 THEN SendJson(res, 404, ApiErrorBody("User not found", "USER_NOT_FOUND"))
                 ELSE SendJson(res, 200,
                               [success |-> TRUE, data |-> [id |-> userId.value]])
    /\ pc' = "responded"
    /\ UNCHANGED <<env, req, err, cls, safeMsg, logs, thrown>>
    /\ UNCHANGED errorBody
    /\ UNCHANGED serverVars
    /\ UNCHANGED config

\* router.delete('/users/:id')
DeleteUserById ==
    /\ pc = "request"
    /\ req.method = "DELETE"
    /\ req.path = "/users/:id"
    /\ LET userId == JsParseInt(req.id)
       IN res' = IF userId.nan \/ userId.value = 0 \/ userId.value < 1
                 THEN SendJson(res, 400,
                               ApiErrorBody("Invalid user ID provided", "INVALID_PARAMETER"))
                 ELSE IF userId.value > 100
                 THEN SendJson(res, 404, ApiErrorBody("User not found", "USER_NOT_FOUND"))
                 ELSE IF userId.value = 1
                 THEN SendJson(res, 403,
                               ApiErrorBody("Cannot delete admin user", "FORBIDDEN_OPERATION"))
                 ELSE SendJson(res, 200,
                               [success |-> TRUE, data |-> [id |-> userId.value]])
    /\ pc' = "responded"
    /\ UNCHANGED <<env, req, err, cls, safeMsg, logs, thrown>>
    /\ UNCHANGED errorBody
    /\ UNCHANGED serverVars
    /\ UNCHANGED config

\* router.get('/error'): req.query.type, 'generic' when absent, selects the
\* simulated failure.  'server' throws inside the try block and the catch
\* block hands the error on with next(error); 'async' arms a 100 ms timer whose
\* callback throws, then answers 500.
ApiError ==
    /\ pc = "request"
    /\ req.method = "GET"
    /\ req.path = "/error"
    /\ LET errorType == IF req.errorType = "" THEN "generic" ELSE req.errorType
       IN CASE errorType = "validation" ->
                   /\ res' = SendJson(res, 400,
                                 ApiErrorBody("Validation error simulation",
                                              "VALIDATION_ERROR"))
                   /\ pc' = "responded"
                   /\ err' = err
            [] errorType = "notfound" ->
                   /\ res' = SendJson(res, 404,
                                 ApiErrorBody("Resource not found simulation", "NOT_FOUND"))
                   /\ pc' = "responded"
                   /\ err' = err
            [] errorType = "server" ->
                   /\ res' = res
                   /\ pc' = "errorHandler"
                   /\ err' = [status |-> 0, statusCode |-> 0, name |-> "Error",
                              ctor |-> "Error", code |-> "", message |-> MsgTeapot]
            [] errorType = "async" ->
                   /\ res' = SendJson(res, 500,
                                 ApiErrorBody("Async error initiated", "ASYNC_ERROR"))
                   /\ pc' = "asyncPending"
                   /\ err' = err
            [] OTHER ->
                   /\ res' = SendJson(res, 400,
                                 ApiErrorBody("Unknown error type", "INVALID_PARAMETER"))
                   /\ pc' = "responded"
                   /\ err' = err
    /\ UNCHANGED <<env, req, cls, safeMsg, logs, thrown>>
    /\ UNCHANGED errorBody
    /\ UNCHANGED serverVars
    /\ UNCHANGED config

\* The timer armed by the 'async' branch fires: its callback throws outside
\* any handler, an uncaught exception of the process
AsyncErrorTimer ==
    /\ pc = "asyncPending"
    /\ pc' = "uncaught"
    /\ thrown' = TRUE
    /\ UNCHANGED <<env, req, res, err, cls, safeMsg, logs>>
    /\ UNCHANGED errorBody
    /\ UNCHANGED serverVars
    /\ UNCHANGED config

UserIds ==
    {<<>>, <<"0">>, <<"1">>, <<"7">>, <<"1", "0", "0">>, <<"1", "0", "1">>,
     <<"1", "5", "0">>, <<"a", "b", "c">>, <<"-", "5">>, <<"1", "2", "a">>,
     <<"+", "4", "2">>, <<"9", "9">>, <<"2", "5", "0">>}

\* Requests to the API router, by the route they match
ApiRequests ==
    {Request("GET", "/users/:id", cid, h, "", "none") @@ [id |-> id, errorType |-> ""] :
        cid \in {"", "uuid-1"}, h \in {"", "client-1"}, id \in UserIds}
    \cup
    {Request(method, "/users/:id", "uuid-1", "", "", body) @@ [id |-> id, errorType |-> ""] :
        method \in {"GET", "PUT", "DELETE"}, id \in UserIds,
        body \in {"none", "user", "no-name", "no-email"}}
    \cup
    {Request("GET", "/error", cid, "", "", "none")
         @@ [id |-> <<>>, errorType |-> t] :
        cid \in {"", "uuid-1"},
        t \in {"", "validation", "notfound", "server", "async", "other"}}
    \cup
    {Request(method, "*", cid, h, "", "none") @@ [id |-> <<>>, errorType |-> ""] :
        method \in {"GET", "POST", "DELETE"}, cid \in {"", "uuid-1"},
        h \in {"", "client-1"}}

ApiInit ==
    /\ ServerIdle
    /\ pc = "request"
    /\ env = NoEnv
    /\ req \in ApiRequests
    /\ res = [FreshResponse EXCEPT !.xCorrelationId = req.correlationId]
    /\ err = NoError
    /\ cls = NoClassification
    /\ safeMsg = NoMessage
    /\ logs = <<>>
    /\ errorBody = NoBody
    /\ config = NoConfig
    /\ thrown = FALSE

ApiNext ==
    \/ GetUserById
    \/ PutUserById
    \/ DeleteUserById
    \/ ApiError
    \/ AsyncErrorTimer
    \/ ApiNotFound

(***************************************************************************)
(* app.js: the routing table of createApp.  A path is the sequence of its  *)
(* segments; a router mounted at a prefix sees the path without it.        *)
(***************************************************************************)
\* routes/index: GET /, /status, /ping
IndexRoute(method, path) ==
    IF method # "GET" THEN "none"
    ELSE IF path = <<>> THEN "index.root"
    ELSE IF path = <<"status">> THEN "index.status"
    ELSE IF path = <<"ping">> THEN "index.ping"
    ELSE "none"

\* routes/api: its routes, and the catch-all that answers everything else
ApiRoute(method, path) ==
    IF method = "GET" /\ path = <<>> THEN "api.root"
    ELSE IF method = "GET" /\ path = <<"status">> THEN "api.status"
    ELSE IF method = "GET" /\ path = <<"users">> THEN "api.users.list"
    ELSE IF method = "POST" /\ path = <<"users">> THEN "api.users.create"
    ELSE IF Len(path) = 2 /\ path[1] = "users" /\ method = "GET" THEN "api.users.get"
    ELSE IF Len(path) = 2 /\ path[1] = "users" /\ method = "PUT" THEN "api.users.update"
    ELSE IF Len(path) = 2 /\ path[1] = "users" /\ method = "DELETE" THEN "api.users.delete"
    ELSE IF method = "GET" /\ path = <<"data">> THEN "api.data.get"
    ELSE IF method = "POST" /\ path = <<"data">> THEN "api.data.post"
    ELSE IF method = "GET" /\ path = <<"error">> THEN "api.error"
    ELSE "api.notFound"

\* routes/health: GET /health, /ping, /ready
HealthRoute(method, path) ==
    IF method # "GET" THEN "none"
    ELSE IF path = <<"health">> THEN "health.health"
    ELSE IF path = <<"ping">> THEN "health.ping"
    ELSE IF path = <<"ready">> THEN "health.ready"
    ELSE "none"

\* The handler that answers the request: the routers in the order they are
\* mounted (index at /, api at /api, health at /health), then app.get('/ping'),
\* then the 404 handler
Dispatch(method, path) ==
    IF IndexRoute(method, path) # "none" THEN IndexRoute(method, path)
    ELSE IF path # <<>> /\ Head(path) = "api" THEN ApiRoute(method, Tail(path))
    ELSE IF path # <<>> /\ Head(path) = "health"
            /\ HealthRoute(method, Tail(path)) # "none"
         THEN HealthRoute(method, Tail(path))
    ELSE IF method = "GET" /\ path = <<"ping">> THEN "app.ping"
    ELSE "notFound"

\* The request reaches the routers and is handed to its handler
Route ==
    /\ pc = "routes"
    /\ pc' = Dispatch(req.method, req.segments)
    /\ UNCHANGED <<env, req, res, err, cls, safeMsg, logs, thrown>>
    /\ UNCHANGED errorBody
    /\ UNCHANGED serverVars
    /\ UNCHANGED config

RoutePaths ==
    {[text |-> "/", segments |-> <<>>],
     [text |-> "/status", segments |-> <<"status">>],
     [text |-> "/ping", segments |-> <<"ping">>],
     [text |-> "/health", segments |-> <<"health">>],
     [text |-> "/ready", segments |-> <<"ready">>],
     [text |-> "/health/health", segments |-> <<"health", "health">>],
     [text |-> "/health/ping", segments |-> <<"health", "ping">>],
     [text |-> "/health/ready", segments |-> <<"health", "ready">>],
     [text |-> "/api", segments |-> <<"api">>],
     [text |-> "/api/users", segments |-> <<"api", "users">>],
     [text |-> "/api/users/150", segments |-> <<"api", "users", "150">>],
     [text |-> "/api/error", segments |-> <<"api", "error">>],
     [text |-> "/api/nope", segments |-> <<"api", "nope">>],
     [text |-> "/nope", segments |-> <<"nope">>]}

RouteRequests ==
    {Request(method, p.text, "uuid-1", h, r, "none") @@ [segments |-> p.segments] :
        method \in {"GET", "POST", "DELETE"}, p \in RoutePaths,
        h \in {"", "client-1"}, r \in {"", "request-1"}}

RouteInit ==
    /\ ServerIdle
    /\ pc = "routes"
    /\ env = NoEnv
    /\ req \in RouteRequests
    /\ res = [FreshResponse EXCEPT !.xCorrelationId = req.correlationId]
    /\ err = NoError
    /\ cls = NoClassification
    /\ safeMsg = NoMessage
    /\ logs = <<>>
    /\ errorBody = NoBody
    /\ config = NoConfig
    /\ thrown = FALSE

RouteNext == Route

(***************************************************************************)
(* routes/index: the ping handler of the root router                       *)
(***************************************************************************)
\* router.get('/ping'): res.json({ message: 'pong', timestamp })
IndexPing ==
    /\ pc = "index.ping"
    /\ res' = SendJson(res, 200, [message |-> "pong", timestamp |-> "now"])
    /\ pc' = "responded"
    /\ UNCHANGED <<env, req, err, cls, safeMsg, logs, thrown>>
    /\ UNCHANGED errorBody
    /\ UNCHANGED serverVars
    /\ UNCHANGED config

\* A ping request at the root router (pc = "index.ping") or at the health
\* router (pc = "request"), in any process environment
PingInit ==
    /\ ServerIdle
    /\ pc \in {"index.ping", "request"}
    /\ env \in Environments
    /\ req \in {rq \in HealthRequests : rq.path = "/ping"}
    /\ res = [FreshResponse EXCEPT !.xCorrelationId = req.correlationId]
    /\ err = NoError
    /\ cls = NoClassification
    /\ safeMsg = NoMessage
    /\ logs = <<>>
    /\ errorBody = NoBody
    /\ config = NoConfig
    /\ thrown = FALSE

PingNext == IndexPing \/ PingHandler

(***************************************************************************)
(* config/index: parsing of the environment, validation, the export        *)
(*                                                                         *)
(* An environment variable is its text as characters; << >> stands for a   *)
(* variable that is unset or empty, which the code treats alike.           *)
(***************************************************************************)
IsSpace(c) == c \in {" ", "\t", "\n"}

RECURSIVE TrimStart(_)
TrimStart(s) == IF s # <<>> /\ IsSpace(Head(s)) THEN TrimStart(Tail(s)) ELSE s

RECURSIVE TrimEnd(_)
TrimEnd(s) ==
    IF s # <<>> /\ IsSpace(s[Len(s)]) THEN TrimEnd(SubSeq(s, 1, Len(s) - 1)) ELSE s

\* String.prototype.trim
Trim(s) == TrimEnd(TrimStart(s))

\* configUtils.parseInt(value, defaultValue, min, max); the built-in
\* parseInt(value, 10) skips leading white space and reads the leading digits
parseInt(value, defaultValue, min, max) ==
    IF value = <<>> THEN defaultValue
    ELSE LET parsed == JsParseInt(TrimStart(value))
         IN IF parsed.nan THEN defaultValue
            ELSE IF parsed.value < min \/ parsed.value > max THEN defaultValue
            ELSE parsed.value

\* allowedValues = null
AnyValue == {}

\* Variant of configUtils.parseString that returns a value that is empty once
\* trimmed
parseString_EmptyAllowed(value, defaultValue, allowedValues) ==
    IF value = <<>> THEN defaultValue
    ELSE LET trimmed == Trim(value)
         IN IF allowedValues # AnyValue /\ trimmed \notin allowedValues
            THEN defaultValue
            ELSE trimmed

\* configUtils.parseString(value, defaultValue, allowedValues)
parseString(value, defaultValue, allowedValues) ==
    IF value = <<>> THEN defaultValue
    ELSE LET trimmed == Trim(value)
         IN IF trimmed = <<>> THEN defaultValue
            ELSE IF allowedValues # AnyValue /\ trimmed \notin allowedValues
            THEN defaultValue
            ELSE trimmed

TrueWords == {<<"t", "r", "u", "e">>, <<"1">>, <<"y", "e", "s">>, <<"o", "n">>, <<"e", "n", "a", "b", "l", "e", "d">>}

FalseWords == {<<"f", "a", "l", "s", "e">>, <<"0">>, <<"n", "o">>, <<"o", "f", "f">>, <<"d", "i", "s", "a", "b", "l", "e", "d">>}

\* configUtils.parseBoolean(value, defaultValue)
parseBoolean(value, defaultValue) ==
    IF value = <<>> THEN defaultValue
    ELSE LET normalized == Trim(ToLowerCase(value))
         IN IF normalized \in TrueWords THEN TRUE
            ELSE IF normalized \in FalseWords THEN FALSE
            ELSE defaultValue

\* String.prototype.split for a one-character separator
RECURSIVE Split(_, _, _)
Split(s, separator, current) ==
    IF s = <<>> THEN <<current>>
    ELSE IF Head(s) = separator
    THEN <<current>> \o Split(Tail(s), separator, <<>>)
    ELSE Split(Tail(s), separator, Append(current, Head(s)))

IsAlphaNumeric(c) ==
    \/ IsDigit(c)
    \/ \E i \in 1..26 : c = LowerCase[i] \/ c = UpperCase[i]

\* [a-zA-Z0-9]([a-zA-Z0-9-]{0,61}[a-zA-Z0-9])?
IsDomainLabel(label) ==
    /\ Len(label) \in 1..63
    /\ IsAlphaNumeric(label[1])
    /\ IsAlphaNumeric(label[Len(label)])
    /\ \A i \in 1..Len(label) : IsAlphaNumeric(label[i]) \/ label[i] = "-"

\* \d{1,3}
IsIpPart(part) ==
    /\ Len(part) \in 1..3
    /\ \A i \in 1..Len(part) : IsDigit(part[i])

\* configUtils.isValidHost(host): localhostPattern, ipPattern, domainPattern
isValidHost(host) ==
    /\ host # <<>>
    /\ LET parts == Split(host, ".", <<>>)
       IN \/ host \in {<<"l", "o", "c", "a", "l", "h", "o", "s", "t">>, <<"1", "2", "7", ".", "0", ".", "0", ".", "1">>, <<"0", ".", "0", ".", "0", ".", "0">>}
          \/ Len(parts) = 4 /\ \A i \in 1..4 : IsIpPart(parts[i])
          \/ \A i \in 1..Len(parts) : IsDomainLabel(parts[i])

EnvironmentNames == {<<"d", "e", "v", "e", "l", "o", "p", "m", "e", "n", "t">>, <<"s", "t", "a", "g", "i", "n", "g">>, <<"p", "r", "o", "d", "u", "c", "t", "i", "o", "n">>, <<"t", "e", "s", "t">>}

\* The objects server, app, logging, middleware and monitoring, built from the
\* process environment e while the module loads
LoadedConfiguration(e) ==
    LET host == parseString(IF e.HOST # <<>> THEN e.HOST ELSE e.HOSTNAME,
                            <<"1", "2", "7", ".", "0", ".", "0", ".", "1">>, AnyValue)
        appEnv == parseString(e.NODE_ENV, <<"d", "e", "v", "e", "l", "o", "p", "m", "e", "n", "t">>, EnvironmentNames)
    IN [loaded |-> TRUE,
        server |-> [host |-> IF isValidHost(host) THEN host ELSE <<"1", "2", "7", ".", "0", ".", "0", ".", "1">>,
                    port |-> parseInt(e.PORT, 3000, 1024, 65535)],
        app |-> [env |-> appEnv,
                 debug |-> parseBoolean(e.DEBUG, e.NODE_ENV # <<"p", "r", "o", "d", "u", "c", "t", "i", "o", "n">>)],
        logging |-> [file |-> parseBoolean(e.LOG_FILE, appEnv = <<"p", "r", "o", "d", "u", "c", "t", "i", "o", "n">>),
                     directory |-> parseString(e.LOG_DIRECTORY, <<".", "/", "l", "o", "g", "s">>, AnyValue)],
        middleware |-> [cors |-> [enabled |-> parseBoolean(e.CORS_ENABLED, TRUE)]],
        monitoring |-> [healthCheck |->
                           [path |-> parseString(e.HEALTH_CHECK_PATH, <<"/", "h", "e", "a", "l", "t", "h">>,
                                                 AnyValue),
                            timeout |-> parseInt(e.HEALTH_CHECK_TIMEOUT,
                                                 5000, 1000, 30000)]]]

\* validateConfiguration(), run while the module loads: the validation errors
ConfigurationErrors(c) ==
    (IF ~isValidHost(c.server.host) THEN {"Invalid server host"} ELSE {})
    \cup (IF c.server.port < 1024 \/ c.server.port > 65535
          THEN {"Invalid server port"} ELSE {})
    \cup (IF c.app.env \notin EnvironmentNames THEN {"Invalid NODE_ENV"} ELSE {})
    \cup (IF c.logging.file /\ c.logging.directory = <<>>
          THEN {"Log directory must be specified"} ELSE {})

\* require('./config'): the module body runs; validateConfiguration throws
\* when it has found an error, else the settings are exported
LoadConfig ==
    /\ pc = "boot"
    /\ LET c == LoadedConfiguration(env)
       IN IF ConfigurationErrors(c) # {}
          THEN /\ config' = NoConfig
               /\ thrown' = TRUE
               /\ pc' = "loadFailed"
          ELSE /\ config' = c
               /\ thrown' = FALSE
               /\ pc' = "loaded"
    /\ UNCHANGED <<env, req, res, err, cls, safeMsg, logs, errorBody>>
    /\ UNCHANGED serverVars

\* Object.freeze is applied to the exported object and to each object that is
\* a property of it, not to the objects nested in those: the object at
\* objectPath (the path from the export) is frozen
IsFrozen(objectPath) == Len(objectPath) <= 1

\* What assignments to try: the property path from the export and the value
Assignments ==
    <<[path |-> <<"server", "port">>, value |-> 80],
     [path |-> <<"app", "env">>, value |-> <<"h", "a", "c", "k", "e", "d">>],
     [path |-> <<"middleware", "cors">>, value |-> [enabled |-> FALSE]],
     [path |-> <<"middleware", "cors", "enabled">>, value |-> FALSE],
     [path |-> <<"middleware", "cors", "enabled">>, value |-> TRUE],
     [path |-> <<"monitoring", "healthCheck", "timeout">>, value |-> 1]>>

\* The settings after the property at path has been given value
SetAt(c, path, value) ==
    IF Len(path) = 2 THEN [c EXCEPT ![path[1]][path[2]] = value]
    ELSE [c EXCEPT ![path[1]][path[2]][path[3]] = value]

\* Some module assigns to a property of the loaded settings; an assignment to
\* a property of a frozen object has no effect
Assign(a) ==
    /\ pc = "loaded"
    /\ config' = IF IsFrozen(SubSeq(a.path, 1, Len(a.path) - 1))
                 THEN config
                 ELSE SetAt(config, a.path, a.value)
    /\ pc' = "assigned"
    /\ UNCHANGED <<env, req, res, err, cls, safeMsg, logs, errorBody, thrown>>
    /\ UNCHANGED serverVars

HostValues == {<<>>, <<"l", "o", "c", "a", "l", "h", "o", "s", "t">>, <<"0", ".", "0", ".", "0", ".", "0">>, <<"e", "x", "a", "m", "p", "l", "e", ".", "c", "o", "m">>, <<"b", "a", "d", " ", "h", "o", "s", "t">>}

PortValues ==
    {<<>>, <<"a", "b", "c">>, <<"8", "0">>, <<"1", "0", "2", "4">>, <<"8", "0", "8", "0">>, <<"6", "5", "5", "3", "5">>, <<"6", "5", "5", "3", "6">>, <<"8", "0", "8", "0", "a", "b", "c">>}

NodeEnvValues == {<<>>, <<"p", "r", "o", "d", "u", "c", "t", "i", "o", "n">>, <<"t", "e", "s", "t">>, <<"p", "r", "o", "d">>}

DebugValues == {<<>>, <<"t", "r", "u", "e">>, <<"Y", "E", "S">>, <<"m", "a", "y", "b", "e">>}

CorsEnabledValues == {<<>>, <<"0">>, <<"2">>}

HealthCheckTimeoutValues == {<<>>, <<"2", "0", "0", "0">>, <<"9", "9", "9">>}

\* The process environments the module is loaded in
ProcessEnvironments ==
    [HOST : HostValues, HOSTNAME : {<<>>}, PORT : PortValues,
     NODE_ENV : NodeEnvValues, DEBUG : DebugValues, LOG_FILE : {<<>>},
     LOG_DIRECTORY : {<<>>}, CORS_ENABLED : CorsEnabledValues,
     HEALTH_CHECK_PATH : {<<>>},
     HEALTH_CHECK_TIMEOUT : HealthCheckTimeoutValues]
    \cup
    [HOST : {<<>>, <<"b", "a", "d", " ", "h", "o", "s", "t">>}, HOSTNAME : {<<>>, <<"-", "e", "x", "a", "m", "p", "l", "e", "-", ".", "c", "o", "m">>},
     PORT : {<<>>, <<"8", "0">>}, NODE_ENV : {<<>>, <<"p", "r", "o", "d">>, <<"p", "r", "o", "d", "u", "c", "t", "i", "o", "n">>},
     DEBUG : {<<>>}, LOG_FILE : {<<>>, <<"t", "r", "u", "e">>, <<"o", "f", "f">>},
     LOG_DIRECTORY : {<<>>, <<" ", " ">>, <<"/", "v", "a", "r", "/", "l", "o", "g">>},
     CORS_ENABLED : {<<>>}, HEALTH_CHECK_PATH : {<<>>},
     HEALTH_CHECK_TIMEOUT : {<<>>}]

ConfigInit ==
    /\ ServerIdle
    /\ pc = "boot"
    /\ env \in ProcessEnvironments
    /\ req = NoRequest
    /\ res = FreshResponse
    /\ err = NoError
    /\ cls = NoClassification
    /\ safeMsg = NoMessage
    /\ logs = <<>>
    /\ errorBody = NoBody
    /\ config = NoConfig
    /\ thrown = FALSE

ConfigNext ==
    \/ LoadConfig
    \/ \E i \in 1..Len(Assignments) : Assign(Assignments[i])

(***************************************************************************)
(* Access logging: the skip function and the stream of the two morgan      *)
(* instances, the one of middleware/logger and the one of createApp.       *)
(* A request carries its url as characters in the field url.               *)
(***************************************************************************)
\* skip of morganMiddleware (middleware/logger), processEnv = process.env
MorganSkip(url, processEnv) ==
    url = <<"/", "h", "e", "a", "l", "t", "h">> /\ processEnv.NODE_ENV = <<"p", "r", "o", "d", "u", "c", "t", "i", "o", "n">>

\* skip of the morgan instance of createApp; the configuration module has no
\* NODE_ENV property, so config.NODE_ENV is undefined
AppMorganSkip(url, configNodeEnv) ==
    url = <<"/", "h", "e", "a", "l", "t", "h">> /\ configNodeEnv = <<"p", "r", "o", "d", "u", "c", "t", "i", "o", "n">>

\* config.NODE_ENV as createApp reads it (<< >> = undefined)
AppConfigNodeEnv == <<>>

\* morganMiddleware when the response has finished: skipped, or the line is
\* handed to stream.write, which calls logger.http and, in its catch block,
\* logger.error
MorganMiddlewareLog ==
    /\ pc = "finished"
    /\ IF MorganSkip(req.url, env)
       THEN /\ pc' = "skipped"
            /\ UNCHANGED <<logs, thrown>>
       ELSE IF ~LoggerCallThrows("http")
       THEN /\ pc' = "written"
            /\ logs' = Append(logs, LogLine("http", "HTTP Request", req.correlationId))
            /\ UNCHANGED thrown
       ELSE IF ~LoggerCallThrows("error")
       THEN /\ pc' = "written"
            /\ logs' = Append(logs, LogLine("error", "Morgan log parsing failed", ""))
            /\ UNCHANGED thrown
       ELSE /\ pc' = "writeFailed"
            /\ thrown' = TRUE
            /\ UNCHANGED logs
    /\ UNCHANGED <<env, req, res, err, cls, safeMsg, errorBody>>
    /\ UNCHANGED serverVars
    /\ UNCHANGED config

\* The morgan instance of createApp when the response has finished: skipped,
\* or the line is handed to stream.write, which calls logger.info
AppMorganLog ==
    /\ pc = "finished"
    /\ IF AppMorganSkip(req.url, AppConfigNodeEnv)
       THEN /\ pc' = "skipped"
            /\ UNCHANGED <<logs, thrown>>
       ELSE IF ~LoggerCallThrows("info")
       THEN /\ pc' = "written"
            /\ logs' = Append(logs, LogLine("info", "morgan", req.correlationId))
            /\ UNCHANGED thrown
       ELSE /\ pc' = "writeFailed"
            /\ thrown' = TRUE
            /\ UNCHANGED logs
    /\ UNCHANGED <<env, req, res, err, cls, safeMsg, errorBody>>
    /\ UNCHANGED serverVars
    /\ UNCHANGED config

AccessUrls ==
    {<<"/">>, <<"/", "h", "e", "a", "l", "t", "h">>, <<"/", "h", "e", "a", "l", "t", "h", "/", "h", "e", "a", "l", "t", "h">>, <<"/", "s", "t", "a", "t", "u", "s">>, <<"/", "h", "e", "a", "l", "t", "h", "z">>, <<"/", "a", "p", "i", "/", "u", "s", "e", "r", "s">>,
     <<"/", "h", "e", "a", "l", "t", "h", "?", "p", "r", "o", "b", "e", "=", "1">>}

AccessRequests ==
    {Request(method, "", "", "", id, "none") @@ [url |-> url] :
        method \in {"GET", "HEAD"}, id \in {"uuid-1", "client-1"},
        url \in AccessUrls}

\* The process environments of the access log: the environment name and the
\* configured health-check path
AccessEnvironments ==
    [HOST : {<<>>}, HOSTNAME : {<<>>}, PORT : {<<>>},
     NODE_ENV : {<<>>, <<"p", "r", "o", "d", "u", "c", "t", "i", "o", "n">>, <<"d", "e", "v", "e", "l", "o", "p", "m", "e", "n", "t">>, <<"t", "e", "s", "t">>},
     DEBUG : {<<>>}, LOG_FILE : {<<>>}, LOG_DIRECTORY : {<<>>},
     CORS_ENABLED : {<<>>},
     HEALTH_CHECK_PATH : {<<>>, <<"/", "s", "t", "a", "t", "u", "s">>, <<"/", "h", "e", "a", "l", "t", "h", "z">>},
     HEALTH_CHECK_TIMEOUT : {<<>>}]

\* A request has been answered; the configuration module is loaded
AccessInit ==
    /\ ServerIdle
    /\ pc = "finished"
    /\ env \in AccessEnvironments
    /\ req \in AccessRequests
    /\ res = [FreshResponse EXCEPT !.headersSent = TRUE, !.sends = 1]
    /\ err = NoError
    /\ cls = NoClassification
    /\ safeMsg = NoMessage
    /\ logs = <<>>
    /\ errorBody = NoBody
    /\ config = LoadedConfiguration(env)
    /\ thrown = FALSE

AccessNext == MorganMiddlewareLog \/ AppMorganLog

(***************************************************************************)
(* Specifications                                                          *)
(***************************************************************************)
Init == ServerInit

Next == ServerNext

Spec == Init /\ [][Next]_vars

\* The event loop delivers pending events and timers; whether and when a peer
\* ends its connection, and whether a signal arrives, is up to the environment.
LiveSpec ==
    /\ Spec
    /\ WF_vars(Listen)
    /\ WF_vars(\E c \in Conns : ConnectionClose(c))
    /\ WF_vars(ServerClosed)
    /\ WF_vars(ShutdownTimeout)
    /\ WF_vars(CheckConnections)
    /\ WF_vars(RequestListener)

ErrSpec == ErrInit /\ [][ErrNext]_vars

HealthSpec == HealthInit /\ [][HealthNext]_vars

PipeSpec == PipeInit /\ [][PipeNext]_vars

ApiSpec == ApiInit /\ [][ApiNext]_vars

RouteSpec == RouteInit /\ [][RouteNext]_vars

PingSpec == PingInit /\ [][PingNext]_vars

ConfigSpec == ConfigInit /\ [][ConfigNext]_vars

AccessSpec == AccessInit /\ [][AccessNext]_vars

(***************************************************************************)
(* Properties                                                              *)
(***************************************************************************)

\* C1: once a shutdown has begun (the server no longer accepts), the process
\* eventually exits, also when an open connection never closes on its own.
\* The 10 second timer is armed inside the server.close callback only, and that
\* callback waits for every connection to end: the property does not hold.
C1_ShutdownEventuallyExits == (phase = "closing") ~> (phase = "exited")

\* C2: when centralizedErrorHandler has run, no exception has left it, a
\* response has been started (by the handler if nobody did before) and at most
\* one response body was sent.  Both logger.error calls throw, the one in the
\* catch block unprotected: the property does not hold.
C2_HandlerContainsItsOwnFailure ==
    pc = "handled" => (~thrown /\ res.headersSent /\ res.sends <= 1)

\* C7: a failure with an explicit status (status, else statusCode) in 400..599
\* is classified with exactly that status, category client below 500 and
\* server from 500 on, whatever its name, code or message.
C7_ExplicitStatusWins ==
    (pc \in {"classified", "messaged"} /\ ExplicitStatus(err) \in 400..599)
        => /\ cls.status = ExplicitStatus(err)
           /\ cls.category = IF cls.status < 500 THEN "client" ELSE "server"

C7_Witness ==
    /\ pc = "classified"
    /\ err.status = 0 /\ err.statusCode = 503
    /\ err.name = "ValidationError" /\ err.code = "EACCES"
    /\ err.message = MsgUserNotFound
    /\ cls = Classification(503, "server")

\* C8 as stated: a failure whose name is in the classification table gets the
\* status of that entry.  An explicit status on the failure takes precedence,
\* so this does not hold.
C8_NameAlwaysWins ==
    (pc \in {"classified", "messaged"} /\ NameInTable(err))
        => cls = ERROR_CLASSIFICATIONS[err.name]

\* C8: a failure without explicit status whose name is in the classification
\* table gets the status and category of that entry, whatever its code or
\* message.
C8_NameWinsWithoutExplicitStatus ==
    (pc \in {"classified", "messaged"} /\ ExplicitStatus(err) = 0 /\ NameInTable(err))
        => cls = ERROR_CLASSIFICATIONS[err.name]

C8_Witness ==
    /\ pc = "classified"
    /\ ExplicitStatus(err) = 0
    /\ err.name = "ValidationError" /\ err.code = "ECONNREFUSED"
    /\ err.message = MsgUserNotFound
    /\ cls = Classification(400, "client")

\* The failures C9 is about: no explicit status, neither name nor constructor
\* name in the table, a fault code set
CodeDecides(e) ==
    ExplicitStatus(e) = 0 /\ ~NameInTable(e) /\ ~CtorInTable(e) /\ e.code # ""

\* C9 as stated: connection refused, timeout and address not found give
\* 503/server, permission denied 403/client, every other code 500/server.
\* Address in use gives 503 as well, so this does not hold.
C9_CodeTableAsStated ==
    (pc \in {"classified", "messaged"} /\ CodeDecides(err))
        => cls = CASE err.code \in {"ECONNREFUSED", "ETIMEDOUT", "ENOTFOUND"}
                          -> Classification(503, "server")
                   [] err.code = "EACCES" -> Classification(403, "client")
                   [] OTHER -> Classification(500, "server")

\* C9: for such a failure, address in use, connection refused, address not
\* found and timeout give 503/server, permission denied gives 403/client and
\* every other code 500/server, whatever the message.
C9_CodeTable ==
    (pc \in {"classified", "messaged"} /\ CodeDecides(err))
        => cls = CASE err.code \in {"EADDRINUSE", "ECONNREFUSED", "ETIMEDOUT", "ENOTFOUND"}
                          -> Classification(503, "server")
                   [] err.code = "EACCES" -> Classification(403, "client")
                   [] OTHER -> Classification(500, "server")

C9_Witness ==
    /\ pc = "classified"
    /\ CodeDecides(err)
    /\ err.code = "EADDRINUSE"
    /\ err.message = MsgUserNotFound
    /\ cls = Classification(503, "server")

\* The messages C10 lets through: shorter than 200 characters, no sensitive
\* pattern
ShortAndHarmless(message) ==
    Len(message) < 200 /\ ~ContainsSensitiveInfo(message)

\* C10 as stated: every 4xx failure with a short harmless message gets
\* "Bad Request - " followed by the message, every other case the safe table
\* entry of its status.  The table is consulted first, so this does not hold.
C10_VerbatimForEvery4xx ==
    pc = "messaged"
        => IF cls.status \in 400..499 /\ ShortAndHarmless(err.message)
           THEN safeMsg.text = BadRequestPrefix \o err.message
           ELSE /\ cls.status \in DOMAIN SAFE_ERROR_MESSAGES
                /\ safeMsg.text = SAFE_ERROR_MESSAGES[cls.status]

\* C10: a status with a safe table entry gets that entry.  Without an entry, a
\* 4xx failure with a non-empty, short, harmless message gets "Bad Request - "
\* followed by the message; any other 4xx gets the 400 entry and everything
\* else the 500 entry.
C10_SafeTableFirst ==
    pc = "messaged"
        => safeMsg.text =
             IF cls.status \in DOMAIN SAFE_ERROR_MESSAGES
             THEN SAFE_ERROR_MESSAGES[cls.status]
             ELSE IF /\ cls.status \in 400..499
                     /\ err.message # <<>>
                     /\ ShortAndHarmless(err.message)
                  THEN BadRequestPrefix \o err.message
             ELSE IF cls.status \in 400..499 THEN SAFE_400
             ELSE SAFE_500

C10_Witness ==
    /\ pc = "messaged"
    /\ cls.status = 499
    /\ err.message = MsgTeapot
    /\ safeMsg.text = BadRequestPrefix \o MsgTeapot

\* C3: every response, whatever the route and the outcome (CORS preflight and
\* body parsing failure included), carries a non-empty X-Correlation-ID header,
\* and the log lines of the request carry the same identifier.  The identifier
\* is assigned by the fifth layer only; a response made by an earlier layer
\* has no such header, so this does not hold.
C3_EveryResponseCarriesTheHeader ==
    res.headersSent
        => /\ res.xCorrelationId # ""
           /\ \A i \in DOMAIN logs : logs[i].correlationId = res.xCorrelationId

\* C4: once correlationIdMiddleware has assigned an identifier to a request,
\* the response header, the response body and every log line of that request
\* carry that identifier, also for /health, /ping and /ready of the health
\* router.  The router's handlers take their identifier from the request
\* headers or make up their own, so this does not hold.
C4_OneIdentifierEverywhere ==
    (pc = "responded" /\ req.correlationId # "")
        => /\ res.xCorrelationId = req.correlationId
           /\ res.body.correlationId = req.correlationId
           /\ \A i \in DOMAIN logs : logs[i].correlationId = req.correlationId

AllHealthy(e) ==
    /\ validateProcessHealth(e).healthy
    /\ validateMemoryUsage(e).healthy
    /\ validateConfiguration(e).healthy
    /\ validateEnvironment(e).healthy
    /\ validateDependencies(e).healthy

\* C5: GET /health answers 200 with status "ok" exactly when all five
\* sub-checks (process, memory, configuration, environment, dependencies) are
\* healthy and 503 otherwise, whatever else the request carries.
C5_HealthyIffAllChecks ==
    (pc = "responded" /\ req.path = "/health")
        => /\ res.statusCode = (IF AllHealthy(env) THEN 200 ELSE 503)
           /\ res.body.status = (IF AllHealthy(env) THEN "ok" ELSE "error")

C5_Witness ==
    /\ pc = "responded"
    /\ req.path = "/health"
    /\ req.hCorrelationId = "client-1"
    /\ AllHealthy(env)
    /\ res.statusCode = 200
    /\ res.sends = 1

ReadinessOf(e) ==
    [server |-> validateServerReadiness(e),
     configuration |-> validateConfigurationReadiness(e),
     dependencies |-> validateDependencyReadiness(e)]

\* The text lists the check: its name, ": " and its message
Lists(text, name, message) ==
    \E i \in 1..Len(text) :
        /\ text[i] = name
        /\ i + 1 + Len(message) <= Len(text)
        /\ SubSeq(text, i + 1, i + 1 + Len(message)) = <<": ">> \o message

Names(text) == {text[i] : i \in 1..Len(text)} \cap {"server", "configuration", "dependencies"}

Separators(text) == Cardinality({i \in 1..Len(text) : text[i] = ", "})

\* C6: GET /ready answers 200 "ready" exactly when the server, configuration
\* and dependency checks are all ready; otherwise 503 "not ready" with a
\* failure reason that lists exactly the not-ready checks, each with its
\* message, separated by ", ".
C6_ReadyIffAllChecks ==
    (pc = "responded" /\ req.path = "/ready")
        => LET checks == ReadinessOf(env)
               notReady == {k \in DOMAIN checks : ~checks[k].ready}
           IN IF notReady = {}
              THEN res.statusCode = 200 /\ res.body.status = "ready"
              ELSE /\ res.statusCode = 503
                   /\ res.body.status = "not ready"
                   /\ Head(res.body.error) = "Readiness check failed: "
                   /\ Names(Tail(res.body.error)) = notReady
                   /\ \A k \in notReady : Lists(Tail(res.body.error), k, checks[k].message)
                   /\ Separators(Tail(res.body.error)) = Cardinality(notReady) - 1

C6_Witness ==
    /\ pc = "responded"
    /\ req.path = "/ready"
    /\ res.statusCode = 503
    /\ res.body.status = "not ready"
    /\ res.body.error = <<"Readiness check failed: ", "configuration", ": ",
                          "Configuration incomplete">>

\* The sensitive terms of the message generation, lower case; "file path" is
\* the word file followed by the word path on the same line
SensitiveTerms ==
    {PAT_password, PAT_token, PAT_secret, PAT_key, PAT_database, PAT_connection,
     PAT_internal, PAT_stack, PAT_directory, PAT_config, PAT_env}

MentionsSensitiveTerm(message) ==
    \/ \E term \in SensitiveTerms : Includes(ToLowerCase(message), term)
    \/ TestWordThenWord(message, PAT_file, PAT_path)

SafeTexts == {SAFE_ERROR_MESSAGES[s] : s \in DOMAIN SAFE_ERROR_MESSAGES}

\* C11: for a 4xx classification whose message contains a sensitive term in
\* any letter case, or is 200 characters or longer, the client message is one
\* of the fixed safe texts and does not contain the raw message.
C11_SensitiveOrLongNeverLeaks ==
    (/\ pc = "messaged"
     /\ cls.status \in 400..499
     /\ (MentionsSensitiveTerm(err.message) \/ Len(err.message) >= 200))
        => /\ safeMsg.text \in SafeTexts
           /\ ~Includes(safeMsg.text, err.message)

C11_Witness ==
    /\ pc = "messaged"
    /\ cls.status = 499
    /\ err.message = MsgBadToken
    /\ safeMsg.text = SAFE_400

\* The fields of a response body that would expose internals
InternalFields == {"stack", "stackTrace", "code", "name", "path"}

ErrorSchema == {"error", "status", "message", "timestamp", "correlationId"}

\* C13: every response with a status of 400 or above has a body with the
\* fields error, status, message, timestamp and correlationId and none that
\* exposes internals.  The handlers of the API router answer 400 and 404 with
\* a body of their own shape (success, error), so this does not hold.
C13_ErrorResponsesShareSchema ==
    (res.headersSent /\ res.statusCode >= 400)
        => /\ ErrorSchema \subseteq DOMAIN res.body
           /\ DOMAIN res.body \cap InternalFields = {}

\* The memory threshold the process environment calls for, in bytes
StatedThreshold(e) ==
    (IF e.NODE_ENV = "production" THEN 150 ELSE 100) * 1024 * 1024

\* The health report names the memory check as failed
MemoryReportedUnhealthy ==
    /\ res.statusCode = 503
    /\ \E i \in 1..Len(res.body.error) : res.body.error[i] = "memory"

\* C14: the health report has the memory check failed exactly when the
\* resident set size is not below 150 MB for a process in the production
\* environment, 100 MB for any other.  The check reads the environment from
\* a property the configuration module does not have and so always uses
\* 100 MB; it also compares the size rounded to whole megabytes.  The
\* property does not hold.
C14_MemoryThresholdByEnvironment ==
    (pc = "responded" /\ req.path = "/health")
        => (MemoryReportedUnhealthy <=> env.rss >= StatedThreshold(env))

\* The health report names the configuration check as failed
ConfigurationReportedUnhealthy ==
    /\ res.statusCode = 503
    /\ \E i \in 1..Len(res.body.error) : res.body.error[i] = "configuration"

\* C15: when the configuration module has loaded, the configuration check of
\* the health report is healthy and the one of the readiness report is ready:
\* /ready answers 200 and /health does not name the configuration check as
\* failed.  Both checks read NODE_ENV, HOST and PORT from the top level of the
\* configuration object, where the loaded module has none of them, so this
\* does not hold.
C15_LoadedConfigurationIsHealthy ==
    (pc = "responded" /\ env.configLoaded)
        => /\ req.path = "/health" => ~ConfigurationReportedUnhealthy
           /\ req.path = "/ready" => res.statusCode = 200

\* C16: GET /health is handed to the health report handler and GET /ready to
\* the readiness handler, never to the 404 handler.  The health router is
\* mounted at /health, so its routes are /health/health and /health/ready and
\* both requests end at the 404 handler: the property does not hold.
C16_HealthAndReadyAreRouted ==
    (pc # "routes" /\ req.method = "GET")
        => /\ req.path = "/health" => pc = "health.health"
           /\ req.path = "/ready" => pc = "health.ready"

FaultLogged ==
    \E i \in 1..Len(logs) :
        logs[i].event \in {"Uncaught Exception:", "Unhandled Rejection at:"}

\* C18: once an uncaught exception or an unhandled rejection has been logged
\* and has started the shutdown, the sequence runs to its end: the process
\* eventually exits, also when an open connection never closes on its own.
\* The sequence is the one a signal starts, with the 10 second timer armed
\* only after every connection has ended: the property does not hold.
C18_FaultShutdownEventuallyExits ==
    (FaultLogged /\ phase = "closing") ~> (phase = "exited")

\* C19: once the configuration module has loaded, no step changes any of its
\* settings, at any depth.  Only the exported object and the objects directly
\* below it are frozen: the property does not hold.
C19_LoadedSettingsNeverChange == [][config.loaded => config' = config]_vars

\* The text is an integer: digits only, white space around them allowed
IsIntegerText(text) ==
    /\ Trim(text) # <<>>
    /\ \A i \in 1..Len(Trim(text)) : IsDigit(Trim(text)[i])

\* The integer setting that the text stands for, given its default and range
StatedInteger(text, defaultValue, min, max) ==
    IF IsIntegerText(text) /\ ParseInt(Trim(text), 0) >= min
                           /\ ParseInt(Trim(text), 0) <= max
    THEN ParseInt(Trim(text), 0)
    ELSE defaultValue

\* C20: each integer setting loaded from the environment is the supplied
\* integer when the text is an integer within the setting's range, and the
\* setting's default otherwise.  Text with digits in front ("8080abc") is
\* taken for the number in front: the property does not hold.
C20_IntegerSettingIsSuppliedOrDefault ==
    pc = "loaded"
        => /\ config.server.port = StatedInteger(env.PORT, 3000, 1024, 65535)
           /\ config.monitoring.healthCheck.timeout
                  = StatedInteger(env.HEALTH_CHECK_TIMEOUT, 5000, 1000, 30000)

\* C21: the access log line of a finished request is suppressed exactly when
\* the process runs in production and the request is for the configured
\* health-check path.  Both skip functions compare the url with the literal
\* /health, and the one of createApp reads a NODE_ENV property the
\* configuration does not have: the property does not hold.
C21_SuppressedIffProductionHealthPath ==
    pc \in {"skipped", "written", "writeFailed"}
        => (pc = "skipped"
              <=> /\ config.app.env = <<"p", "r", "o", "d", "u", "c", "t", "i", "o", "n">>
                  /\ req.url = config.monitoring.healthCheck.path)

\* The id of the request, read as a whole decimal number, is above 100
IdAbove100 ==
    /\ req.id # <<>>
    /\ \A i \in 1..Len(req.id) : IsDigit(req.id[i])
    /\ ParseInt(req.id, 0) > 100

\* C22: a GET, PUT or DELETE of /users/:id with an id above 100 is answered
\* 404 with code USER_NOT_FOUND, whatever the body holds.  PUT validates the
\* body before it looks the user up: the property does not hold.
C22_IdAbove100IsNotFound ==
    (pc = "responded" /\ req.path = "/users/:id" /\ IdAbove100)
        => /\ res.statusCode = 404
           /\ res.body.error.code = "USER_NOT_FOUND"

\* C23: the classification of every failure has a status in 100..599 and the
\* category client or server.  An explicit status on the failure is returned
\* as it is, whatever its value: the property does not hold.
C23_ClassificationInRange ==
    cls # NoClassification
        => /\ cls.status \in 100..599
           /\ cls.category \in {"client", "server"}

\* C24: when the request is at a layer behind the first one of the pipeline,
\* or has been answered or handed to the error handling layer, it already has
\* its correlation identifier.  The layer that assigns the identifier is the
\* fifth, behind access logging, body parsing, cors and helmet: the property
\* does not hold.
C24_IdentifierAssignedFirst ==
    pc \in {"json", "urlencoded", "text", "cors", "helmet", "errorHandler",
            "responded", "unhandled"}
        => req.correlationId # ""

\* C25: a request the listener has received eventually gets exactly one
\* response.  The listener's request function is the application factory,
\* which answers nothing and throws: the property does not hold.
C25_ReceivedRequestIsAnswered ==
    (pc = "received") ~> (res.headersSent /\ res.sends = 1)

\* The keyword groups of the message check, in their order, with the status
\* each stands for
KeywordGroups ==
    <<[keywords |-> {KW_validation, KW_invalid}, status |-> 400],
      [keywords |-> {KW_unauthorized, KW_authentication}, status |-> 401],
      [keywords |-> {KW_forbidden, KW_permission}, status |-> 403],
      [keywords |-> {KW_not_found}, status |-> 404]>>

\* The group with that index has a keyword that occurs in the message, in
\* whatever case
GroupMatches(i, message) ==
    \E k \in KeywordGroups[i].keywords : Includes(ToLowerCase(message), k)

\* The classification the keyword groups give the message
StatedByMessage(message) ==
    IF \E i \in 1..Len(KeywordGroups) : GroupMatches(i, message)
    THEN Classification(
             KeywordGroups[CHOOSE i \in 1..Len(KeywordGroups) :
                              /\ GroupMatches(i, message)
                              /\ \A j \in 1..(i - 1) : ~GroupMatches(j, message)].status,
             "client")
    ELSE Classification(500, "server")

\* C26, as stated: without explicit status, table-listed name and fault code
\* the message decides.  A constructor name that the table lists is looked up
\* before the message, so this does not hold.
C26_MessageDecidesAsStated ==
    (pc = "classified" /\ ExplicitStatus(err) = 0 /\ ~NameInTable(err)
                       /\ err.code = "")
        => cls = StatedByMessage(err.message)

\* C26: for a failure with no explicit status, neither name nor constructor
\* name in the classification table and no fault code, the first keyword
\* group (400, 401, 403, 404 in that order) with a keyword in the lower-cased
\* message gives the status with category client; no match gives 500/server.
C26_MessageDecides ==
    (pc = "classified" /\ ExplicitStatus(err) = 0 /\ ~NameInTable(err)
                       /\ ~CtorInTable(err) /\ err.code = "")
        => cls = StatedByMessage(err.message)

C26_Witness ==
    /\ pc = "classified"
    /\ ExplicitStatus(err) = 0 /\ ~NameInTable(err) /\ ~CtorInTable(err)
    /\ err.code = ""
    /\ err.message = MsgForbiddenNotFound
    /\ cls = Classification(403, "client")

\* The result of the health sub-check of that name in the environment e
SubCheck(name, e) ==
    CASE name = "process" -> validateProcessHealth(e)
      [] name = "memory" -> validateMemoryUsage(e)
      [] name = "configuration" -> validateConfiguration(e)
      [] name = "environment" -> validateEnvironment(e)
      [] name = "dependencies" -> validateDependencies(e)

\* Name, ": " and message of each failing check among names, with ", " between
\* one failing check and the next
RECURSIVE FailingList(_, _)
FailingList(names, e) ==
    IF names = <<>> THEN <<>>
    ELSE LET rest == FailingList(Tail(names), e)
         IN IF SubCheck(Head(names), e).healthy THEN rest
            ELSE <<Head(names), ": ">> \o SubCheck(Head(names), e).message
                 \o (IF rest = <<>> THEN <<>> ELSE <<", ">> \o rest)

\* C27: a 503 answer of GET /health carries the combined message: "Health
\* check failures: " followed by name, ": " and message of exactly the failing
\* sub-checks, joined by ", "; at least one sub-check is failing then.
C27_CombinedFailureMessage ==
    (pc = "responded" /\ req.path = "/health" /\ res.statusCode = 503)
        => /\ \E n \in {"process", "memory", "configuration", "environment",
                        "dependencies"} : ~SubCheck(n, env).healthy
           /\ res.body.error
                  = <<"Health check failures: ">>
                    \o FailingList(<<"process", "memory", "configuration",
                                     "environment", "dependencies">>, env)

\* A memory breach together with a failing configuration check: both are
\* listed, the memory check by its name
C27_Witness ==
    /\ pc = "responded"
    /\ req.path = "/health"
    /\ res.statusCode = 503
    /\ ~validateMemoryUsage(env).healthy
    /\ ~validateConfiguration(env).healthy
    /\ validateEnvironment(env).healthy
    /\ \E i \in 1..Len(res.body.error) : res.body.error[i] = "memory"
    /\ \E i \in 1..Len(res.body.error) : res.body.error[i] = ", "

\* C28: the tracked set holds exactly the sockets whose connection event has
\* occurred and whose close event has not, and only those two events change it.
C28_TrackedSetIsTheOpenSockets ==
    /\ [](connections = {c \in Conns : sock[c] \in {"open", "ended"}})
    /\ [][connections' # connections
              => \E c \in Conns : Connection(c) \/ ConnectionClose(c)]_vars

\* One socket has come and gone, another one has ended and awaits its close
\* event, during a shutdown
C28_Witness ==
    /\ phase = "closing"
    /\ \E c \in Conns : sock[c] = "closed" /\ c \notin connections
    /\ \E c \in Conns : sock[c] = "ended" /\ c \in connections

\* C29: loading the configuration never fails, and the loaded settings pass
\* every test of the validation: a well-formed host, a port in 1024..65535, a
\* known environment name, and a log directory whenever file logging is on.
C29_ValidationFindsNoError ==
    /\ pc # "loadFailed"
    /\ pc = "loaded"
           => /\ isValidHost(config.server.host)
              /\ config.server.port \in 1024..65535
              /\ config.app.env \in EnvironmentNames
              /\ config.logging.file => config.logging.directory # <<>>

\* Every input of the validation was invalid or missing and has been replaced
C29_Witness ==
    /\ pc = "loaded"
    /\ env.HOST = <<"b", "a", "d", " ", "h", "o", "s", "t">>
    /\ env.PORT = <<"8", "0">>
    /\ env.NODE_ENV = <<"p", "r", "o", "d">>
    /\ env.LOG_FILE = <<"t", "r", "u", "e">>
    /\ env.LOG_DIRECTORY = <<" ", " ">>
    /\ config.server.port = 3000
    /\ config.logging.file
    /\ config.logging.directory = <<".", "/", "l", "o", "g", "s">>

\* C30: a GET of /api/error?type=async that the listener has received is
\* eventually answered 500 with code ASYNC_ERROR.  The listener hands no
\* request to the application, so the route is never reached: the property
\* does not hold.
C30_AsyncErrorIsAnswered ==
    (pc = "received" /\ req.method = "GET" /\ req.path = "/api/error?type=async")
        ~> (res.headersSent /\ res.statusCode = 500 /\ res.sends = 1)

====
